---------------------------- MODULE Spec2Model ----------------------------
(***************************************************************************)
(* A model of the SmartACE lowering pipeline (martin-neuhaeusser/smartace). *)
(*                                                                         *)
(* Part 1: the "remembered single cell" map abstraction that the function  *)
(*         printer emits for every mapping (Init_/ND_/Read_/Write_/Ref_).  *)
(* Part 2: the harness: MainFunctionGenerator::print_main and the          *)
(*         run_model function it emits, with the call-state generator      *)
(*         StateGenerator.                                                 *)
(* Part 3: the modifier chain: ModifierBlockConverter and the functions   *)
(*         emitted for one FunctionDefinition, with their execution.       *)
(* Part 4: the identifiers emitted by MainFunction_1, by build_case and    *)
(*         by expand_interference (KeyIterator).                           *)
(* Part 5: number literals (ExpressionConverter::literal_to_number).       *)
(* Part 6: the expression converter (identifiers, member and index        *)
(*         accesses, assignments, payments, method calls, contract         *)
(*         creation, unsupported constructs).                              *)
(* Part 7: block lowering: the scope frames kept while a function body   *)
(*         is lowered, and the value handler of a payable function.        *)
(* Part 8: the taint analysis of one function (TaintAnalysis).             *)
(* Part 9: the map invariants and the interference block of the harness   *)
(*         (print_invariants, expand_interference).                        *)
(***************************************************************************)
EXTENDS Integers, Sequences, FiniteSets, TLC

VARIABLES
    \* ---- Part 1: one map instance (struct A_accs_submap1) ----
    a,          \* the map: [m_set, m_curr, d_, d_nd]
    created,    \* "Init" or "ND": which constructor produced the map
    entry,      \* the pointer last returned by Ref_: "null", "d_" or "d_nd"
    call,       \* record of the last map operation (inputs, result, pre-state)
    \* ---- Part 2: generator configuration ----
    M_USE_LOCKSTEP_TIME,  \* StateGenerator::M_USE_LOCKSTEP_TIME
    m_actors,             \* per actor, per specialization: isPayable()
    m_addrdata,           \* [contract_count, size, literal0]
    \* ---- Part 2: generator state ----
    pc,          \* position in print_main / in the emitted run_model
    stream,      \* the output stream of print_main
    call_cases,  \* the CSwitch cases built by print_main
    \* ---- Part 2: state of the emitted run_model ----
    state,       \* the call-state locals: sender, value, blocknum, ...
    take_step,   \* the take_step local
    next_call,   \* the uint8_t next_call local
    \* ---- Part 2: observations of the current loop iteration ----
    nd_next,     \* the value the non-deterministic source returned for next_call
    steps,       \* the statements of the loop body executed so far
    stepped,     \* which of blocknum/timestamp executed their advance statement
    invoked,     \* the method invocations issued in this iteration
    \* ---- Part 3: one FunctionDefinition and the functions emitted for it ----
    bpc,         \* "convert", "call", "run" or "done"
    m_func,      \* the function: [invocations, rv] (modifier list, has_retval)
    m_output,    \* the emitted functions: sequence of [name, body]
    m_frames,    \* call stack of the emitted program
    m_entered,   \* names of the functions entered so far, in order
    m_returned,  \* the last return executed: [fn, value, calls, last, ip]
    \* ---- Part 4: the main-function printers ----
    ppc,         \* which generator runs: "printer", "harness", "interference"
    p_ast,       \* the contract: its FunctionDefinitions in order
    p_forward,   \* MainFunction_1::m_forward_declare
    p_i,         \* MainFunction_1::i of the printer object used last
    p_runs,      \* the print() calls made: [fresh, out]
    k_iter,      \* the KeyIterator of expand_interference
    emitted,     \* the identifiers emitted so far
    \* ---- Part 5: one number literal ----
    lpc,         \* "literal" or "done"
    l_node,      \* the Literal: [value, sub] (digits, sub-denomination)
    l_num,       \* the integer emitted for it: [trap, neg, mag]
    \* ---- Part 6: one visit of the expression converter ----
    epc,         \* "visit" or "done"
    e_node,      \* the AST node visited
    m_find_ref,  \* the context wants an address
    m_lval,      \* the visit is on the l-value side of an assignment
    m_subexpr,   \* the target expression built
    \* ---- Part 7: the lowering of one function body ----
    spc,         \* "enter", "lower", "converted", "done" or "fatal"
    s_func,      \* the function: [body, manage_pay, is_payable]
    s_code,      \* the visits still to make
    s_scopes,    \* the frames of VariableScopeResolver, innermost last
    s_block,     \* the statements emitted
    s_marks,     \* per open compound statement: the frames at its entry
    s_closed,    \* the compound statement last left: frames before and after
    s_call,      \* one entry of the lowered body: [paid, value, balance, after]
    \* ---- Part 8: the taint analysis of one function ----
    apc,         \* "taint", "pass" or "done"
    a_body,      \* the assignments and initialised declarations of the function
    m_taint,     \* per variable declaration, the sources it is tainted by
    m_changed,   \* a bit was set in the current pass
    a_next,      \* the statement the pass visits next
    a_passes,    \* the passes started
    a_marked,    \* the taint database when run was called
    \* ---- Part 9: the map invariants and the interference block ----
    ipc,         \* "print", "expand", "iterate", "done" or "fatal"
    i_mode,      \* invariant_mode of the configuration
    m_maps,      \* the map descriptors of the bundle
    i_count,     \* addresses()->count()
    i_implicit,  \* addresses()->implicit_count()
    i_iter,      \* the KeyIterator in use
    i_defs,      \* the ids of the Inv_<id> functions defined
    i_block,     \* the statements of the interference block
    i_map,       \* the position in m_maps of the map expanded
    i_ret,       \* what the last next() returned: "none", "true" or "false"
    i_calls      \* the calls of next() since the iterator was last empty

mvars == <<a, created, entry, call>>
cvars == <<M_USE_LOCKSTEP_TIME, m_actors, m_addrdata>>
gvars == <<stream, call_cases>>
rvars == <<state, take_step, next_call>>
ovars == <<nd_next, steps, stepped, invoked>>
hvars == <<pc, cvars, gvars, rvars, ovars>>
bvars == <<bpc, m_func, m_output, m_frames, m_entered, m_returned>>
pvars == <<ppc, p_ast, p_forward, p_i, p_runs, k_iter, emitted>>
lvars == <<lpc, l_node, l_num>>
evars == <<epc, e_node, m_find_ref, m_lval, m_subexpr>>
svars == <<spc, s_func, s_code, s_scopes, s_block, s_marks, s_closed, s_call>>
avars == <<apc, a_body, m_taint, m_changed, a_next, a_passes, a_marked>>
ivars == <<ipc, i_mode, m_maps, i_count, i_implicit, i_iter, i_defs, i_block, i_map, i_ret, i_calls>>
tvars == <<bvars, pvars, lvars, evars, svars, avars, ivars>>
vars == <<mvars, hvars, tvars>>

\* ------------------------------------------------------------------------
\* Bounds of the model.
\* ------------------------------------------------------------------------
MaxKey == 2       \* map keys are 0..MaxKey
MaxVal == 1       \* map values are 0..MaxVal
MaxSet == 2       \* ND_Init_Val() for m_set ranges over 0..MaxSet
MaxTime == 2      \* blocknum and timestamp range over 0..MaxTime
MaxValue == 1     \* msg.value ranges over 0..MaxValue
MaxClients == 2   \* client addresses reserved in the address space
BigSpecs == 255   \* number of specializations of the large actor

\* uint8_t next_call: the values the variable can hold.
Uint8Range == 256

\* An automatic variable that was declared but never assigned.
Indeterminate == -1
\* A variable that is not declared in the emitted program.
NotDeclared == -2

\* ========================================================================
\* Part 1: the map abstraction.
\* ========================================================================
Keys == 0..MaxKey
\* struct A_S, abstracted to a scalar.
A_S == 0..MaxVal
Init_A_S == 0
\* ND_A_S(): every value of the type is a possible result.
ND_A_S == A_S

Init_A_accs_submap1 ==
    [m_set |-> 0, m_curr |-> 0, d_ |-> Init_A_S, d_nd |-> Init_A_S]

ND_A_accs_submap1 ==
    [m_set : 0..MaxSet, m_curr : Keys, d_ : ND_A_S, d_nd : {Init_A_S}]

\* if(a->m_set==0){a->m_curr=idx;a->m_set=1;}
Latch(m, idx) ==
    IF m.m_set = 0 THEN [m EXCEPT !.m_curr = idx, !.m_set = 1] ELSE m

\* Read_<M>(a, idx); nd is the value ND_A_S() returns if it is called.
Read_bug(m, idx, nd) ==
    LET b == Latch(m, idx)
    IN  IF idx = b.m_curr THEN [map |-> b, ret |-> nd, nd |-> <<nd>>]
                          ELSE [map |-> b, ret |-> b.d_, nd |-> <<>>]

Read_A_accs_submap1(m, idx, nd) ==
    LET b == Latch(m, idx)
    IN  IF idx # b.m_curr THEN [map |-> b, ret |-> nd, nd |-> <<nd>>]
                          ELSE [map |-> b, ret |-> b.d_, nd |-> <<>>]

\* Write_<M>(a, idx, d)
Write_bug(m, idx, d) ==
    LET b == Latch(m, idx) IN [b EXCEPT !.d_ = d]

Write_A_accs_submap1(m, idx, d) ==
    LET b == Latch(m, idx)
    IN  IF idx = b.m_curr THEN [b EXCEPT !.d_ = d] ELSE b

\* Ref_<M>(a, idx): returns &a->d_nd (after a->d_nd=ND_A_S()) or &a->d_.
Ref_A_accs_submap1(m, idx, nd) ==
    LET b == Latch(m, idx)
    IN  IF idx # b.m_curr
        THEN [map |-> [b EXCEPT !.d_nd = nd], ret |-> "d_nd", nd |-> <<nd>>]
        ELSE [map |-> b, ret |-> "d_", nd |-> <<>>]

NoCall ==
    [op |-> "none", idx |-> 0, d |-> 0, ret |-> 0, nd |-> <<>>,
     pre |-> Init_A_accs_submap1, after |-> <<>>]

\* The value written by the immediately preceding call, when that call was
\* a Write at key idx.
JustWritten(idx) ==
    IF call.op = "Write" /\ call.idx = idx THEN <<call.d>> ELSE <<>>

MapInit ==
    /\ \/ created = "Init" /\ a = Init_A_accs_submap1
       \/ created = "ND" /\ a \in ND_A_accs_submap1
    /\ entry = "null"
    /\ call = NoCall

DoRead ==
    \E idx \in Keys, nd \in ND_A_S :
        LET r == Read_A_accs_submap1(a, idx, nd)
        IN  /\ a' = r.map
            /\ call' = [op |-> "Read", idx |-> idx, d |-> 0, ret |-> r.ret,
                        nd |-> r.nd, pre |-> a, after |-> JustWritten(idx)]
            /\ UNCHANGED <<created, entry, hvars, tvars>>

DoWrite ==
    \E idx \in Keys, d \in A_S :
        /\ a' = Write_A_accs_submap1(a, idx, d)
        /\ call' = [op |-> "Write", idx |-> idx, d |-> d, ret |-> 0,
                    nd |-> <<>>, pre |-> a, after |-> <<>>]
        /\ UNCHANGED <<created, entry, hvars, tvars>>

DoRef ==
    \E idx \in Keys, nd \in ND_A_S :
        LET r == Ref_A_accs_submap1(a, idx, nd)
        IN  /\ a' = r.map
            /\ entry' = r.ret
            /\ call' = [op |-> "Ref", idx |-> idx, d |-> 0, ret |-> 0,
                        nd |-> r.nd, pre |-> a, after |-> <<>>]
            /\ UNCHANGED <<created, hvars, tvars>>

\* An assignment through the pointer a Ref_ call returned
\* ("S storage entry = accs[idx]; ... entry.val += msg.value").
StoreThroughEntry ==
    \E d \in A_S :
        /\ entry # "null"
        /\ a' = IF entry = "d_" THEN [a EXCEPT !.d_ = d]
                                ELSE [a EXCEPT !.d_nd = d]
        /\ call' = [op |-> "Store", idx |-> 0, d |-> d, ret |-> 0,
                    nd |-> <<>>, pre |-> a, after |-> <<>>]
        /\ UNCHANGED <<created, entry, hvars, tvars>>

MapNext == DoRead \/ DoWrite \/ DoRef \/ StoreThroughEntry

\* ========================================================================
\* Part 2: the harness generator and the run_model function it emits.
\* ========================================================================
Fields == {"sender", "value", "blocknum", "timestamp", "paid", "origin"}

NoState ==
    [sender |-> NotDeclared, value |-> NotDeclared, blocknum |-> NotDeclared,
     timestamp |-> NotDeclared, paid |-> NotDeclared, origin |-> NotDeclared]

NoStepped == [blocknum |-> FALSE, timestamp |-> FALSE]

\* ---- inputs of the generator ----
\* A bundle lists the actors; an actor lists isPayable() of each of its
\* function specializations.
SmallBundles ==
    { <<>>,
      << <<>> >>,
      << <<FALSE>> >>,
      << <<TRUE>> >>,
      << <<FALSE, TRUE>>, <<TRUE>> >>,
      << <<>>, <<TRUE, FALSE>> >> }

LargeActor == [j \in 1..BigSpecs |-> (j % 2 = 0)]

LargeBundles ==
    { << LargeActor >>,
      << LargeActor, <<FALSE>> >>,
      << LargeActor, <<TRUE, FALSE>> >> }

\* The address space summary: one address per deployed contract, one for
\* the literal 0 when it is used, and the client range.
AddrData(actors, literal0, clients) ==
    [contract_count |-> Len(actors),
     literal0 |-> literal0,
     size |-> Len(actors) + (IF literal0 THEN 1 ELSE 0) + clients]

\* The addresses assigned to the deployed contracts.
ContractAddresses ==
    LET first == IF m_addrdata.literal0 THEN 1 ELSE 0
    IN  first..(first + m_addrdata.contract_count - 1)

\* ---- primitives of the verifier ----
\* nd_range(lo, hi, msg): a value in [lo, hi).
Range(lo, hi) == lo..(hi - 1)

\* raw_simple_nd for a uint256 call-state field.
NdTime == 0..MaxTime
NdValue == 0..MaxValue
NdBool == {0, 1}

\* HarnessUtilities::increase(cur, strict, msg).
increase(cur, strict) ==
    IF strict THEN {cur + 1} \cap NdTime ELSE {v \in NdTime : v >= cur}

\* ---- MainFunctionGenerator::print_main ----
\* The loop over actors and specializations that fills the CSwitch; every
\* case is labelled with the size of the switch when it is added.
RECURSIVE BuildCases(_, _, _)
BuildCases(actors, i, cases) ==
    IF i > Len(actors) THEN cases
    ELSE BuildCases(actors, i + 1,
            cases \o [j \in 1..Len(actors[i]) |->
                        [label |-> Len(cases) + j - 1, actor |-> i, spec |-> j]])

PrintMain_bug ==
    /\ pc = "print_main"
    /\ LET cases == BuildCases(m_actors, 1, <<>>)
       IN  /\ call_cases' = cases
           /\ stream' = Append(stream, "run_model")
           /\ pc' = IF Len(cases) = 0 THEN "fatal" ELSE "declare"
    /\ UNCHANGED <<mvars, tvars, cvars, rvars, ovars>>

PrintMain ==
    /\ pc = "print_main"
    /\ LET cases == BuildCases(m_actors, 1, <<>>)
       IN  /\ call_cases' = cases
           /\ IF Len(cases) = 0
              THEN /\ pc' = "fatal"
                   /\ stream' = stream
              ELSE /\ pc' = "declare"
                   /\ stream' = Append(stream, "run_model")
    /\ UNCHANGED <<mvars, tvars, cvars, rvars, ovars>>

\* ---- StateGenerator::declare ----
DeclareValues(fld) ==
    IF fld \in {"blocknum", "timestamp"}
    THEN IF M_USE_LOCKSTEP_TIME THEN NdTime ELSE {0}
    ELSE IF fld = "paid" THEN {1}
    ELSE {Indeterminate}

Declare ==
    /\ pc = "declare"
    /\ take_step' = IF M_USE_LOCKSTEP_TIME THEN Indeterminate ELSE NotDeclared
    /\ state' \in [sender : DeclareValues("sender"),
                   value : DeclareValues("value"),
                   blocknum : DeclareValues("blocknum"),
                   timestamp : DeclareValues("timestamp"),
                   paid : DeclareValues("paid"),
                   origin : DeclareValues("origin")]
    /\ pc' = "setup"
    /\ UNCHANGED <<mvars, tvars, cvars, gvars, next_call, ovars>>

\* Actor declaration, address assignment and the Init_<Contract> calls.
Setup ==
    /\ pc = "setup"
    /\ pc' = "loop"
    /\ UNCHANGED <<mvars, tvars, cvars, gvars, rvars, ovars>>

\* ---- the transaction loop of run_model ----
\* while (sol_continue()) { ... }: next_call is a local of the loop body.
LoopCond ==
    /\ pc = "loop"
    /\ \E c \in BOOLEAN :
          IF c
          THEN /\ pc' = "on_transaction"
               /\ steps' = <<"sol_continue=1">>
               /\ next_call' = Indeterminate
               /\ nd_next' = NotDeclared
               /\ stepped' = NoStepped
               /\ invoked' = <<>>
          ELSE /\ pc' = "exit"
               /\ steps' = <<"sol_continue=0">>
               /\ UNCHANGED <<next_call, nd_next, stepped, invoked>>
    /\ UNCHANGED <<mvars, tvars, cvars, gvars, state, take_step>>

OnTransaction ==
    /\ pc = "on_transaction"
    /\ steps' = Append(steps, "sol_on_transaction")
    /\ pc' = "reps"
    /\ UNCHANGED <<mvars, tvars, cvars, gvars, rvars, nd_next, stepped, invoked>>

\* if (sol_is_using_reps()) { <interference block> }
Interference_bug ==
    /\ pc = "reps"
    /\ \E r \in BOOLEAN :
          steps' = steps \o
                   <<IF r THEN "sol_is_using_reps=1" ELSE "sol_is_using_reps=0",
                     "interference">>
    /\ pc' = "update_global"
    /\ UNCHANGED <<mvars, tvars, cvars, gvars, rvars, nd_next, stepped, invoked>>

Interference ==
    /\ pc = "reps"
    /\ \E r \in BOOLEAN :
          steps' = IF r
                   THEN steps \o <<"sol_is_using_reps=1", "interference">>
                   ELSE Append(steps, "sol_is_using_reps=0")
    /\ pc' = "update_global"
    /\ UNCHANGED <<mvars, tvars, cvars, gvars, rvars, nd_next, stepped, invoked>>

\* ---- StateGenerator::update ----
\* size_t minaddr = contract_count(); if 0 is a literal, minaddr += 1.
MinAddr_bug == m_addrdata.contract_count

MinAddr ==
    m_addrdata.contract_count + (IF m_addrdata.literal0 THEN 1 ELSE 0)

MaxAddr == m_addrdata.size

\* if (fld.field == Paid) continue; if (fld.field == Origin) continue;
SkipsField_bug(fld) == fld = "origin"

SkipsField(fld) == fld \in {"paid", "origin"}

\* The strictness flag handed to HarnessUtilities::increase.
StrictIncrease_bug == FALSE

StrictIncrease == M_USE_LOCKSTEP_TIME

\* Whether the advance statement of fld runs: under lockstep it is wrapped
\* in if (take_step), otherwise it is unconditional.
StepRuns_bug(fld, ts) ==
    M_USE_LOCKSTEP_TIME => (fld = "timestamp" \/ ts # 0)

StepRuns(fld, ts) == M_USE_LOCKSTEP_TIME => ts # 0

\* value.v = 0
ResetValue(cur) == {0}

\* The values one pass of the update loop can leave in field fld.
UpdateValues(fld, cur, ts) ==
    IF SkipsField(fld) THEN {cur}
    ELSE IF fld \in {"blocknum", "timestamp"}
         THEN IF StepRuns(fld, ts) THEN increase(cur, StrictIncrease)
                                   ELSE {cur}
    ELSE IF fld = "value" THEN ResetValue(cur)
    ELSE IF fld = "sender" THEN Range(MinAddr, MaxAddr)
    ELSE IF fld = "paid" THEN NdBool
    ELSE NdValue

UpdateGlobal ==
    /\ pc = "update_global"
    /\ \E ts \in (IF M_USE_LOCKSTEP_TIME THEN Range(0, 2) ELSE {take_step}) :
          /\ take_step' = ts
          /\ state' \in
                [sender : UpdateValues("sender", state.sender, ts),
                 value : UpdateValues("value", state.value, ts),
                 blocknum : UpdateValues("blocknum", state.blocknum, ts),
                 timestamp : UpdateValues("timestamp", state.timestamp, ts),
                 paid : UpdateValues("paid", state.paid, ts),
                 origin : UpdateValues("origin", state.origin, ts)]
          /\ stepped' = [blocknum |-> StepRuns("blocknum", ts),
                         timestamp |-> StepRuns("timestamp", ts)]
    /\ steps' = Append(steps, "update_global")
    /\ pc' = "next_call"
    /\ UNCHANGED <<mvars, tvars, cvars, gvars, next_call, nd_next, invoked>>

\* uint8_t next_call; next_call = nd_range(0, <number of cases>, "next_call");
ChooseNext ==
    /\ pc = "next_call"
    /\ \E v \in Range(0, Len(call_cases)) :
          /\ nd_next' = v
          /\ next_call' = v % Uint8Range
    /\ steps' = Append(steps, "next_call")
    /\ pc' = "switch"
    /\ UNCHANGED <<mvars, tvars, cvars, gvars, state, take_step, stepped, invoked>>

\* ---- MainFunctionGenerator::build_case ----
\* The local call-state update of a case.
update_local(st) == st

\* StateGenerator::pay: value.v = <non-deterministic uint256>
pay(st) == {[st EXCEPT !.value = v] : v \in NdValue}

\* The call-state with which a case invokes its method.
CaseStates_bug(st, payable) == pay(update_local(st))

CaseStates(st, payable) ==
    IF payable THEN pay(update_local(st)) ELSE {update_local(st)}

\* switch (next_call) { case <label>: ...; break; default: require(0); }
Switch ==
    /\ pc = "switch"
    /\ LET matching == {i \in 1..Len(call_cases) :
                            call_cases[i].label = next_call}
       IN  IF matching = {}
           THEN /\ pc' = "default"
                /\ steps' = Append(steps, "default")
                /\ UNCHANGED <<state, invoked>>
           ELSE LET c == call_cases[CHOOSE i \in matching : TRUE]
                    payable == m_actors[c.actor][c.spec]
                IN  /\ state' \in CaseStates(state, payable)
                    /\ invoked' = Append(invoked,
                          [label |-> c.label, actor |-> c.actor,
                           spec |-> c.spec, payable |-> payable,
                           sender |-> state'.sender, value |-> state'.value,
                           paid |-> state'.paid])
                    /\ steps' = Append(steps, "invoke")
                    /\ pc' = "loop"
    /\ UNCHANGED <<mvars, tvars, cvars, gvars, take_step, next_call, nd_next, stepped>>

HarnessNext ==
    \/ PrintMain
    \/ Declare
    \/ Setup
    \/ LoopCond
    \/ OnTransaction
    \/ Interference
    \/ UpdateGlobal
    \/ ChooseNext
    \/ Switch

\* ---- initial states ----
HarnessInit(bundles, locksteps, literals, clients) ==
    /\ pc = "print_main"
    /\ M_USE_LOCKSTEP_TIME \in locksteps
    /\ m_actors \in bundles
    /\ \E z \in literals, n \in clients :
          m_addrdata = AddrData(m_actors, z, n)
    /\ stream = <<>>
    /\ call_cases = <<>>
    /\ state = NoState
    /\ take_step = NotDeclared
    /\ next_call = NotDeclared
    /\ nd_next = NotDeclared
    /\ steps = <<>>
    /\ stepped = NoStepped
    /\ invoked = <<>>

HarnessIdle == HarnessInit({<<>>}, {FALSE}, {FALSE}, {1})

MapIdle ==
    /\ created = "Init"
    /\ a = Init_A_accs_submap1
    /\ entry = "null"
    /\ call = NoCall

\* ========================================================================
\* Part 3: the modifier chain of one function.
\* ========================================================================
\* Longest list of modifier invocations a function carries.
MaxInvocations == 3

\* The value of a call to a function without a return value.
Void == -3

\* The bodies of the modifier definitions: "_" is a PlaceholderStatement,
\* "return" a Return, "stmt" any other statement.
ModifierBodies ==
    { <<>>,
      <<"_">>,
      <<"stmt", "_">>,
      <<"return", "_">>,
      <<"_", "_", "return">>,
      <<"_", "return", "_">> }

\* A ModifierInvocation either names a modifier definition or, in a
\* constructor, a parent constructor.
Invocations ==
    {[ctor |-> TRUE, body |-> <<>>]}
        \cup {[ctor |-> FALSE, body |-> b] : b \in ModifierBodies}

RECURSIVE InvocationLists(_)
InvocationLists(n) ==
    IF n = 0 THEN {<<>>}
    ELSE LET shorter == InvocationLists(n - 1)
         IN  shorter \cup {Append(l, m) : l \in {x \in shorter : Len(x) = n - 1},
                                          m \in Invocations}

FunctionDefinitions ==
    [invocations : InvocationLists(MaxInvocations), rv : BOOLEAN]

\* ---- names of the emitted functions ----
FuncName == "Method_A_Funcf"
ModName(i) == FuncName \o "_mod" \o ToString(i)
BaseName == FuncName \o "_base"

\* ---- ModifierBlockConverter::Factory ----
\* m_filtered_mods: the invocations that are not constructor calls.
FilterMods_bug(invocations) == invocations

FilterMods(invocations) == SelectSeq(invocations, LAMBDA m : ~m.ctor)

\* M_NEXT_CALL of the _i-th modifier (zero-indexed) among len modifiers.
NextCall_bug(i, len) == BaseName

NextCall(i, len) == IF i + 1 < len THEN ModName(i + 1) ELSE BaseName

\* ---- ModifierBlockConverter ----
\* enter: a function with a return value gets the holder func_model_rv.
Enter(rv) == IF rv THEN <<[op |-> "decl_rv", callee |-> ""]>> ELSE <<>>

\* endVisit(PlaceholderStatement): a call to M_NEXT_CALL, stored in the
\* holder when there is one.
LowerPlaceholder_bug(next, rv) == [op |-> "call", callee |-> next]

LowerPlaceholder(next, rv) ==
    [op |-> IF rv THEN "assign_call" ELSE "call", callee |-> next]

\* visit(Return): return the holder when there is one.
LowerReturn(rv) == [op |-> IF rv THEN "return_rv" ELSE "return", callee |-> ""]

LowerStatement(s, next, rv) ==
    CASE s = "_" -> LowerPlaceholder(next, rv)
      [] s = "return" -> LowerReturn(rv)
      [] OTHER -> [op |-> "stmt", callee |-> ""]

\* exit: the trailing return of the holder.
Exit(rv) == IF rv THEN <<LowerReturn(rv)>> ELSE <<>>

\* Factory::generate(_i, ...).convert()
Generate(mods, i, rv) ==
    LET src == mods[i + 1].body
        next == NextCall(i, Len(mods))
    IN  Enter(rv)
          \o [k \in 1..Len(src) |-> LowerStatement(src[k], next, rv)]
          \o Exit(rv)

\* ---- the functions emitted for one FunctionDefinition ----
BaseBody == <<[op |-> "body", callee |-> ""]>>

\* The exported method of a function with modifiers calls the first one.
EntryBody(rv) ==
    IF rv THEN <<[op |-> "assign_call", callee |-> ModName(0)],
                 [op |-> "return_rv", callee |-> ""]>>
          ELSE <<[op |-> "call", callee |-> ModName(0)]>>

ConvertFunction(func) ==
    LET mods == FilterMods(func.invocations)
    IN  IF Len(mods) = 0
        THEN <<[name |-> FuncName, body |-> BaseBody]>>
        ELSE <<[name |-> FuncName, body |-> EntryBody(func.rv)]>>
               \o [i \in 1..Len(mods) |->
                      [name |-> ModName(i - 1),
                       body |-> Generate(mods, i - 1, func.rv)]]
               \o <<[name |-> BaseName, body |-> BaseBody]>>

Convert ==
    /\ bpc = "convert"
    /\ m_output' = ConvertFunction(m_func)
    /\ bpc' = "call"
    /\ UNCHANGED <<m_func, m_frames, m_entered, m_returned>>
    /\ UNCHANGED <<mvars, hvars, pvars, lvars, evars, svars, avars, ivars>>

\* ---- execution of the emitted functions ----
NoReturn == [fn |-> "", value |-> Void, calls |-> 0, last |-> Void, ip |-> 0]

NewFrame(fn) ==
    [fn |-> fn, ip |-> 1, rv |-> NotDeclared, calls |-> 0, last |-> Void]

BodyOf(fn) ==
    LET i == CHOOSE k \in 1..Len(m_output) : m_output[k].name = fn
    IN  m_output[i].body

Top == m_frames[Len(m_frames)]

\* The statement the top frame is at; falling off the end of a function
\* without a return value is a plain return.
Current ==
    LET body == BodyOf(Top.fn)
    IN  IF Top.ip > Len(body) THEN [op |-> "return", callee |-> ""]
        ELSE body[Top.ip]

BaseRuns == Len(SelectSeq(m_entered, LAMBDA fn : fn \in {BaseName, FuncName}
                                        /\ BodyOf(fn) = BaseBody))

\* Reading a holder that was declared but never assigned.
ReadHolder(v) == IF v = Indeterminate THEN 0..MaxInvocations ELSE {v}

\* The harness (or another method) calls the exported method.
CallMethod ==
    /\ bpc = "call"
    /\ m_frames' = <<NewFrame(FuncName)>>
    /\ m_entered' = <<FuncName>>
    /\ bpc' = "run"
    /\ UNCHANGED <<m_func, m_output, m_returned>>
    /\ UNCHANGED <<mvars, hvars, pvars, lvars, evars, svars, avars, ivars>>

Running == bpc = "run" /\ m_frames # <<>>

ExecDecl ==
    /\ Running
    /\ Current.op = "decl_rv"
    /\ m_frames' = [m_frames EXCEPT ![Len(m_frames)] =
                        [@ EXCEPT !.rv = Indeterminate, !.ip = @ + 1]]
    /\ UNCHANGED <<bpc, m_func, m_output, m_entered, m_returned>>
    /\ UNCHANGED <<mvars, hvars, pvars, lvars, evars, svars, avars, ivars>>

ExecStatement ==
    /\ Running
    /\ Current.op = "stmt"
    /\ m_frames' = [m_frames EXCEPT ![Len(m_frames)].ip = @ + 1]
    /\ UNCHANGED <<bpc, m_func, m_output, m_entered, m_returned>>
    /\ UNCHANGED <<mvars, hvars, pvars, lvars, evars, svars, avars, ivars>>

ExecCall ==
    /\ Running
    /\ Current.op \in {"call", "assign_call"}
    /\ m_frames' = Append([m_frames EXCEPT ![Len(m_frames)].calls = @ + 1],
                          NewFrame(Current.callee))
    /\ m_entered' = Append(m_entered, Current.callee)
    /\ UNCHANGED <<bpc, m_func, m_output, m_returned>>
    /\ UNCHANGED <<mvars, hvars, pvars, lvars, evars, svars, avars, ivars>>

\* The top frame returns v: the caller resumes after its call statement.
Deliver(v) ==
    LET rest == SubSeq(m_frames, 1, Len(m_frames) - 1)
    IN  /\ m_returned' = [fn |-> Top.fn, value |-> v, calls |-> Top.calls,
                          last |-> Top.last, ip |-> Top.ip]
        /\ IF rest = <<>>
           THEN /\ m_frames' = <<>>
                /\ bpc' = "done"
           ELSE LET caller == rest[Len(rest)]
                    stmt == BodyOf(caller.fn)[caller.ip]
                    resumed ==
                        [caller EXCEPT
                            !.ip = @ + 1,
                            !.last = v,
                            !.rv = IF stmt.op = "assign_call" THEN v ELSE @]
                IN  /\ m_frames' = [rest EXCEPT ![Len(rest)] = resumed]
                    /\ bpc' = bpc

ExecReturn ==
    /\ Running
    /\ Current.op \in {"return", "return_rv"}
    /\ \E v \in (IF Current.op = "return_rv" THEN ReadHolder(Top.rv)
                                            ELSE {Void}) : Deliver(v)
    /\ UNCHANGED <<m_func, m_output, m_entered>>
    /\ UNCHANGED <<mvars, hvars, pvars, lvars, evars, svars, avars, ivars>>

\* The base body runs; its k-th run returns k.
ExecBase ==
    /\ Running
    /\ Current.op = "body"
    /\ Deliver(IF m_func.rv THEN BaseRuns ELSE Void)
    /\ UNCHANGED <<m_func, m_output, m_entered>>
    /\ UNCHANGED <<mvars, hvars, pvars, lvars, evars, svars, avars, ivars>>

BlockNext ==
    \/ Convert
    \/ CallMethod
    \/ ExecDecl
    \/ ExecStatement
    \/ ExecCall
    \/ ExecReturn
    \/ ExecBase

BlockInit(funcs) ==
    /\ bpc = "convert"
    /\ m_func \in funcs
    /\ m_output = <<>>
    /\ m_frames = <<>>
    /\ m_entered = <<>>
    /\ m_returned = NoReturn

BlockIdle == BlockInit({[invocations |-> <<>>, rv |-> FALSE]})

\* ========================================================================
\* Part 4: identifiers emitted by the main-function printers.
\* ========================================================================
\* Number of print() calls made on one AST.
MaxPrints == 2
\* Largest address count (KeyIterator width) and key depth of a map.
MaxWidth == 2
MaxDepth == 2

\* Strings whose characters matter are sequences of one-character strings.
DigitChars == <<"0", "1", "2", "3", "4", "5", "6", "7", "8", "9">>

\* std::to_string / operator<< of a non-negative integer.
RECURSIVE to_string(_)
to_string(n) ==
    IF n < 10 THEN <<DigitChars[n + 1]>>
    ELSE to_string(n \div 10) \o <<DigitChars[(n % 10) + 1]>>

\* Names of function parameters; <<>> is an unnamed parameter.
ParamNames == {<<>>, <<"a">>, <<"_", "b", "1">>}

\* FunctionDefinitions of the contract: isConstructor(), the names of
\* parameters() and the number of returnParameters().
SampleFunctions ==
    { [ctor |-> TRUE,  params |-> <<<<"a">>>>, rets |-> 0],
      [ctor |-> FALSE, params |-> <<>>, rets |-> 1],
      [ctor |-> FALSE, params |-> <<<<"a">>>>, rets |-> 0],
      [ctor |-> FALSE, params |-> <<<<>>, <<"a">>, <<>>>>, rets |-> 3],
      [ctor |-> FALSE, params |-> <<<<"_", "b", "1">>, <<"a">>>>, rets |-> 2] }

SampleContracts ==
    {<<>>} \cup {<<f>> : f \in SampleFunctions}
           \cup {<<f, g>> : f \in SampleFunctions, g \in SampleFunctions}

Text(t) == [text |-> t, ident |-> <<>>]

\* ---- MainFunction_1 ----
\* print_args: one declaration "<type> <i>_<name>;" per parameter.
print_args(args, i) ==
    [idx \in 1..Len(args) |->
        [text |-> "unsigned int",
         ident |-> to_string(i) \o <<"_">> \o args[idx]]]

\* visit(FunctionDefinition) for each function in turn; the member i counts
\* the functions that are not constructors.
RECURSIVE VisitFunctions(_, _, _)
VisitFunctions(funcs, fwd, i) ==
    IF funcs = <<>> THEN [out |-> <<>>, i |-> i]
    ELSE LET f == Head(funcs)
             here == ~fwd /\ ~f.ctor
             rest == VisitFunctions(Tail(funcs), fwd,
                                    IF here THEN i + 1 ELSE i)
         IN  [out |-> (IF here THEN print_args(f.params, i) ELSE <<>>)
                          \o rest.out,
              i |-> rest.i]

\* visit(ContractDefinition)
VisitContract(fwd) ==
    <<Text("struct CallState")>>
      \o (IF fwd THEN <<>>
          ELSE <<Text("{"), Text("int sender;"), Text("unsigned int value;"),
                Text("unsigned int blocknum;"), Text("}")>>)
      \o <<Text(";")>>
      \o (IF fwd THEN <<>> ELSE <<Text("int main(void)"), Text("{")>>)

\* endVisit(ContractDefinition)
EndVisitContract(fwd) ==
    IF fwd THEN <<>>
    ELSE <<[text |-> "struct A", ident |-> <<"c", "o", "n", "t", "r", "a", "c", "t">>],
           Text("struct CallState globalstate;"),
           Text("Ctor_A(&contract,&globalstate);"),
           Text("struct CallState nextGS;"),
           Text("while (nd())"), Text("{")>>

\* MainFunction_1::print on a printer whose member i holds i0.
print(ast, fwd, i0) ==
    LET body == VisitFunctions(ast, fwd, i0)
    IN  [out |-> VisitContract(fwd) \o body.out \o EndVisitContract(fwd),
         i |-> body.i]

IdentsOf(out) ==
    {out[k].ident : k \in {j \in 1..Len(out) : out[j].ident # <<>>}}

\* A fresh printer object is constructed (i = 0) and prints.
PrintFresh ==
    /\ ppc = "printer"
    /\ Len(p_runs) < MaxPrints
    /\ LET r == print(p_ast, p_forward, 0)
       IN  /\ p_runs' = Append(p_runs, [fresh |-> TRUE, out |-> r.out])
           /\ p_i' = r.i
           /\ emitted' = emitted \cup IdentsOf(r.out)
    /\ UNCHANGED <<ppc, p_ast, p_forward, k_iter>>
    /\ UNCHANGED <<mvars, hvars, bvars, lvars, evars, svars, avars, ivars>>

\* print() is called again on the printer object used last.
PrintAgain ==
    /\ ppc = "printer"
    /\ p_runs # <<>>
    /\ Len(p_runs) < MaxPrints
    /\ LET r == print(p_ast, p_forward, p_i)
       IN  /\ p_runs' = Append(p_runs, [fresh |-> FALSE, out |-> r.out])
           /\ p_i' = r.i
           /\ emitted' = emitted \cup IdentsOf(r.out)
    /\ UNCHANGED <<ppc, p_ast, p_forward, k_iter>>
    /\ UNCHANGED <<mvars, hvars, bvars, lvars, evars, svars, avars, ivars>>

\* ---- MainFunctionGenerator::build_case: the locals of one case ----
RvNames(rets) ==
    {<<"r", "v", "_">> \o to_string(i) : i \in 1..(rets - 1)}

RECURSIVE ArgNames(_, _)
ArgNames(params, placeholder_count) ==
    IF params = <<>> THEN {}
    ELSE IF Head(params) = <<>>
         THEN {<<"p", "l", "a", "c", "e", "h", "o", "l", "d", "e", "r", "_">>
                   \o to_string(placeholder_count)}
                 \cup ArgNames(Tail(params), placeholder_count + 1)
         ELSE {<<"a", "r", "g", "_">> \o Head(params)}
                 \cup ArgNames(Tail(params), placeholder_count)

DeclareCaseLocals ==
    /\ ppc = "harness"
    /\ emitted' = emitted \cup UNION
          {RvNames(p_ast[k].rets) \cup ArgNames(p_ast[k].params, 0) :
              k \in {j \in 1..Len(p_ast) : ~p_ast[j].ctor}}
    /\ ppc' = "done"
    /\ UNCHANGED <<p_ast, p_forward, p_i, p_runs, k_iter>>
    /\ UNCHANGED <<mvars, hvars, bvars, lvars, evars, svars, avars, ivars>>

\* ---- KeyIterator ----
KeyIterator(width, depth, width_offset) ==
    [M_WIDTH |-> width, M_DEPTH |-> depth, M_WIDTH_OFFSET |-> width_offset,
     m_indices |-> <<>>]

RECURSIVE suffix(_)
suffix(indices) ==
    IF indices = <<>> THEN <<>>
    ELSE <<"_">> \o to_string(Head(indices)) \o suffix(Tail(indices))

is_full(it) == it.M_DEPTH > 0 /\ Len(it.m_indices) = it.M_DEPTH

\* ++m_indices.back(); while (m_indices.back() == M_WIDTH) { pop_back();
\* if (m_indices.empty()) break; ++m_indices.back(); }
RECURSIVE Carry(_, _)
Carry(indices, width) ==
    IF indices[Len(indices)] # width THEN indices
    ELSE LET popped == SubSeq(indices, 1, Len(indices) - 1)
         IN  IF popped = <<>> THEN popped
             ELSE Carry([popped EXCEPT ![Len(popped)] = @ + 1], width)

\* next(): the iterator after the call and the value returned.
next_bug(it) ==
    IF it.M_WIDTH = 0 \/ it.M_DEPTH = 0 \/ it.M_WIDTH <= it.M_WIDTH_OFFSET
    THEN [it |-> it, ret |-> FALSE]
    ELSE LET indices ==
                 IF ~is_full(it)
                 THEN Append(it.m_indices, 0)
                 ELSE Carry([it.m_indices EXCEPT ![Len(it.m_indices)] = @ + 1],
                            it.M_WIDTH)
         IN  [it |-> [it EXCEPT !.m_indices = indices],
              ret |-> indices # <<>>]
next(it) ==
    IF it.M_WIDTH = 0 \/ it.M_DEPTH = 0 \/ it.M_WIDTH <= it.M_WIDTH_OFFSET
    THEN [it |-> it, ret |-> FALSE]
    ELSE LET indices ==
                 IF ~is_full(it)
                 THEN Append(it.m_indices, it.M_WIDTH_OFFSET)
                 ELSE Carry([it.m_indices EXCEPT ![Len(it.m_indices)] = @ + 1],
                            it.M_WIDTH)
         IN  [it |-> [it EXCEPT !.m_indices = indices],
              ret |-> indices # <<>>]

\* One round of the loop of expand_interference:
\* do { if (indices.is_full()) { FIELD = "data" + indices.suffix(); ... } }
\* while (indices.next());
InterferenceRound ==
    /\ ppc = "interference"
    /\ emitted' = IF is_full(k_iter)
                  THEN emitted \cup
                         {<<"d", "a", "t", "a">> \o suffix(k_iter.m_indices)}
                  ELSE emitted
    /\ LET r == next(k_iter)
       IN  /\ k_iter' = r.it
           /\ ppc' = IF r.ret THEN "interference" ELSE "done"
    /\ UNCHANGED <<p_ast, p_forward, p_i, p_runs>>
    /\ UNCHANGED <<mvars, hvars, bvars, lvars, evars, svars, avars, ivars>>

PrintNext ==
    \/ PrintFresh
    \/ PrintAgain
    \/ DeclareCaseLocals
    \/ InterferenceRound

NoIterator == KeyIterator(0, 0, 0)

KeyIterators ==
    {KeyIterator(w, d, o) : w \in 0..MaxWidth, d \in 0..MaxDepth, o \in 0..1}

\* One of the three generators runs on its input.
PrintInit(modes, asts, iters) ==
    /\ ppc \in modes
    /\ p_forward \in (IF ppc = "printer" THEN BOOLEAN ELSE {FALSE})
    /\ p_ast \in (IF ppc \in {"printer", "harness"} THEN asts ELSE {<<>>})
    /\ k_iter \in (IF ppc = "interference" THEN iters ELSE {NoIterator})
    /\ p_i = 0
    /\ p_runs = <<>>
    /\ emitted = {}

PrintIdle == PrintInit({"done"}, {<<>>}, {NoIterator})

\* ========================================================================
\* Part 5: number literals (ExpressionConverter::literal_to_number).
\* ========================================================================
\* Largest value written in a number literal.
MaxLiteral == 10

\* A long long holds 64 bits; such values are kept as little-endian
\* sequences of limbs below LimbBase, <<>> being zero, with a sign.
LimbBase == 10000

RECURSIVE Trim(_)
Trim(x) ==
    IF x = <<>> \/ x[Len(x)] # 0 THEN x ELSE Trim(SubSeq(x, 1, Len(x) - 1))

RECURSIVE BigOf(_)
BigOf(n) == IF n = 0 THEN <<>> ELSE <<n % LimbBase>> \o BigOf(n \div LimbBase)

RECURSIVE BigAdd(_, _, _)
BigAdd(x, y, carry) ==
    IF x = <<>> /\ y = <<>>
    THEN IF carry = 0 THEN <<>> ELSE <<carry>>
    ELSE LET xa == IF x = <<>> THEN 0 ELSE Head(x)
             ya == IF y = <<>> THEN 0 ELSE Head(y)
             s == xa + ya + carry
         IN  <<s % LimbBase>>
               \o BigAdd(IF x = <<>> THEN x ELSE Tail(x),
                         IF y = <<>> THEN y ELSE Tail(y), s \div LimbBase)

RECURSIVE BigMulLimb(_, _, _)
BigMulLimb(x, k, carry) ==
    IF x = <<>> THEN (IF carry = 0 THEN <<>> ELSE <<carry>>)
    ELSE LET s == Head(x) * k + carry
         IN  <<s % LimbBase>> \o BigMulLimb(Tail(x), k, s \div LimbBase)

RECURSIVE BigMul(_, _)
BigMul(x, y) ==
    IF y = <<>> THEN <<>>
    ELSE Trim(BigAdd(BigMulLimb(x, Head(y), 0),
                     <<0>> \o BigMul(x, Tail(y)), 0))

\* x < y for trimmed x and y.
BigLess(x, y) ==
    IF Len(x) # Len(y) THEN Len(x) < Len(y)
    ELSE IF x = <<>> THEN FALSE
    ELSE IF x[Len(x)] # y[Len(y)] THEN x[Len(x)] < y[Len(y)]
    ELSE LET n == Len(x) - 1
             differ == {k \in 1..n : x[k] # y[k]}
         IN  /\ differ # {}
             /\ LET top == CHOOSE k \in differ : \A j \in differ : j <= k
                IN  x[top] < y[top]

\* x - y for x >= y.
RECURSIVE BigSubLimbs(_, _, _)
BigSubLimbs(x, y, borrow) ==
    IF x = <<>> THEN <<>>
    ELSE LET ya == IF y = <<>> THEN 0 ELSE Head(y)
             d == Head(x) - ya - borrow
         IN  <<IF d < 0 THEN d + LimbBase ELSE d>>
               \o BigSubLimbs(Tail(x), IF y = <<>> THEN y ELSE Tail(y),
                              IF d < 0 THEN 1 ELSE 0)

BigSub(x, y) == Trim(BigSubLimbs(x, y, 0))

\* 2^63 and 2^64.
TwoTo63 == <<5808, 5477, 6854, 3720, 922>>
TwoTo64 == <<1616, 955, 737, 6744, 1844>>
LLONG_MAX == BigSub(TwoTo63, BigOf(1))

\* Whether the signed value fits a long long.
Fits(neg, mag) ==
    IF neg THEN ~BigLess(TwoTo63, mag) ELSE BigLess(mag, TwoTo63)

RECURSIVE Mod64(_)
Mod64(mag) == IF BigLess(mag, TwoTo64) THEN mag ELSE Mod64(BigSub(mag, TwoTo64))

\* The two's complement value a wrapping multiplication leaves.
Wrap64(neg, mag) ==
    LET m == Mod64(mag)
        u == IF neg /\ m # <<>> THEN BigSub(TwoTo64, m) ELSE m
    IN  IF BigLess(u, TwoTo63)
        THEN [trap |-> FALSE, neg |-> FALSE, mag |-> u]
        ELSE [trap |-> FALSE, neg |-> TRUE, mag |-> BigSub(TwoTo64, u)]

Trapped == [trap |-> TRUE, neg |-> FALSE, mag |-> <<>>]

\* x * k in long long arithmetic. Signed overflow is undefined: the build
\* either wraps or traps.
Mul64(x, k) ==
    IF x.trap THEN {x}
    ELSE LET p == BigMul(x.mag, k)
             neg == x.neg /\ p # <<>>
         IN  IF Fits(neg, p) THEN {[trap |-> FALSE, neg |-> neg, mag |-> p]}
             ELSE {Wrap64(neg, p), Trapped}

RECURSIVE MulChain(_, _)
MulChain(xs, factors) ==
    IF factors = <<>> THEN xs
    ELSE MulChain(UNION {Mul64(x, Head(factors)) : x \in xs}, Tail(factors))

\* istringstream >> num: the decimal digits read, LLONG_MAX when they do
\* not fit.
RECURSIVE DigitsValue(_, _)
DigitsValue(chars, acc) ==
    IF chars = <<>> THEN acc
    ELSE LET d == CHOOSE k \in 0..9 : DigitChars[k + 1] = Head(chars)
         IN  DigitsValue(Tail(chars), BigAdd(BigMulLimb(acc, 10, 0), BigOf(d), 0))

ReadLongLong(chars) ==
    LET v == Trim(DigitsValue(chars, <<>>))
    IN  [trap |-> FALSE, neg |-> FALSE,
         mag |-> IF BigLess(v, TwoTo63) THEN v ELSE LLONG_MAX]

SubDenominations ==
    {"None", "Wei", "Szabo", "Finney", "Ether",
     "Second", "Minute", "Hour", "Day", "Week", "Year"}

\* The factors each case of the switch multiplies num by, in order.
Factors(sub) ==
    CASE sub = "Szabo"  -> <<<<0, 0, 0, 1>>>>
      [] sub = "Finney" -> <<<<0, 0, 0, 1000>>>>
      [] sub = "Ether"  -> <<<<0, 0, 0, 0, 100>>>>
      [] sub = "Minute" -> <<BigOf(60)>>
      [] sub = "Hour"   -> <<BigOf(60), BigOf(60)>>
      [] sub = "Day"    -> <<BigOf(60), BigOf(60), BigOf(24)>>
      [] sub = "Week"   -> <<BigOf(60), BigOf(60), BigOf(24), BigOf(7)>>
      [] sub = "Year"   -> <<BigOf(60), BigOf(60), BigOf(24), BigOf(365)>>
      [] OTHER          -> <<>>

literal_to_number(node) ==
    MulChain({ReadLongLong(node.value)}, Factors(node.sub))

ConvertLiteral ==
    /\ lpc = "literal"
    /\ l_num' \in literal_to_number(l_node)
    /\ lpc' = "done"
    /\ UNCHANGED l_node
    /\ UNCHANGED <<mvars, hvars, bvars, pvars, evars, svars, avars, ivars>>

LiteralNext == ConvertLiteral

NoNumber == [trap |-> FALSE, neg |-> FALSE, mag |-> <<>>]

LiteralInit(values, subs) ==
    /\ lpc = "literal"
    /\ l_node \in [value : {to_string(n) : n \in values}, sub : subs]
    /\ l_num = NoNumber

LiteralIdle ==
    /\ lpc = "done"
    /\ l_node = [value |-> to_string(0), sub |-> "None"]
    /\ l_num = NoNumber

\* ========================================================================
\* Part 6: the expression converter (ExpressionConverter).
\* ========================================================================
\* ---- Type annotations ----
IntegerType == [cat |-> "Integer", name |-> "sol_int256_t"]
UnsignedType == [cat |-> "Integer", name |-> "sol_uint256_t"]
AddressType == [cat |-> "Address", name |-> "sol_address_t"]
RationalType == [cat |-> "RationalNumber", name |-> ""]
StructType(name) == [cat |-> "Struct", name |-> name]
EnumType == [cat |-> "Enum", name |-> "sol_uint8_t"]
TypeType == [cat |-> "TypeType", name |-> ""]
MagicType == [cat |-> "Magic", name |-> ""]
FunctionType(kind) == [cat |-> "Function", name |-> kind]
MappingType(name, key, value) ==
    [cat |-> "Mapping", name |-> name, keyType |-> key, valueType |-> value]
ContractType(name) == [cat |-> "Contract", name |-> name]
\* The type of a method: the kind of call, the name of the specialization
\* called (for super.f the method of the super chain), the types of its
\* parameters and of its return values.
MethodType(kind, callname, params, returns) ==
    [cat |-> "Function", name |-> kind, callname |-> callname,
     params |-> params, returns |-> returns]
NoType == [cat |-> "none", name |-> ""]

\* The primitive types are represented by a struct with the one field v.
is_wrapped_type(type) == type.cat \in {"Integer", "Address", "Bool", "Enum"}

\* ---- AST nodes ----
Identifier(name, type, pointer) ==
    [node |-> "Identifier", name |-> name, type |-> type, pointer |-> pointer]
Literal(value) ==
    [node |-> "Literal", value |-> value, type |-> RationalType]
MemberAccess(expression, memberName, type) ==
    [node |-> "MemberAccess", expression |-> expression,
     memberName |-> memberName, type |-> type]
IndexAccess(baseExpression, indexExpression) ==
    [node |-> "IndexAccess", baseExpression |-> baseExpression,
     indexExpression |-> indexExpression,
     type |-> baseExpression.type.valueType]
TupleExpression(component) ==
    [node |-> "TupleExpression", components |-> <<component>>,
     isInlineArray |-> FALSE, type |-> component.type]
Components(components, isInlineArray) ==
    [node |-> "TupleExpression", components |-> components,
     isInlineArray |-> isInlineArray, type |-> NoType]
UnaryOperation(op, subExpression) ==
    [node |-> "UnaryOperation", op |-> op, subExpression |-> subExpression,
     type |-> subExpression.type]
\* new C, for a contract C whose constructor takes the given parameters.
NewExpression(typeName, params) ==
    [node |-> "NewExpression", typeName |-> typeName,
     type |-> MethodType("Creation", typeName, params, <<>>)]
Assignment(leftHandSide, op, rightHandSide) ==
    [node |-> "Assignment", leftHandSide |-> leftHandSide,
     assignmentOperator |-> op, rightHandSide |-> rightHandSide,
     type |-> leftHandSide.type]
FunctionCall(expression, arguments) ==
    [node |-> "FunctionCall", expression |-> expression,
     arguments |-> arguments, type |-> NoType]
\* callee.value(amount): the callee with the value of the call set.
SetValue(callee, amount) ==
    [node |-> "FunctionCall",
     expression |-> MemberAccess(callee, "value", FunctionType("SetValue")),
     arguments |-> <<amount>>, type |-> callee.type]
NoNode == [node |-> "none"]

\* ---- Target expressions ----
CIdentifier(name, ptr) == [c |-> "CIdentifier", name |-> name, ptr |-> ptr]
CIntLiteral(val) == [c |-> "CIntLiteral", val |-> val]
CReference(e) == [c |-> "CReference", e |-> e]
CDereference(e) == [c |-> "CDereference", e |-> e]
CMemberAccess(e, field) == [c |-> "CMemberAccess", e |-> e, field |-> field]
CBinaryOp(l, op, r) == [c |-> "CBinaryOp", l |-> l, op |-> op, r |-> r]
\* The call op_id(args), or op(args) when id is empty.
CFuncCall(op, id, args) == [c |-> "CFuncCall", op |-> op, id |-> id, args |-> args]
runtime_error(msg) == [c |-> "runtime_error", msg |-> msg]
NoExpr == [c |-> "none"]

Thrown(e) == e.c = "runtime_error"

\* ---- Helpers of the converter ----
\* The node of the given kind that the l-value expression is.
RECURSIVE LValueSniffer(_, _)
LValueSniffer(kind, expr) ==
    IF expr.node = kind THEN expr
    ELSE IF expr.node = "TupleExpression"
         THEN LValueSniffer(kind, expr.components[1])
         ELSE NoNode

\* The first node of the given kind in the callee of a call.
RECURSIVE NodeSniffer(_, _)
NodeSniffer(kind, n) ==
    IF n.node = kind THEN n
    ELSE IF n.node = "FunctionCall" THEN NodeSniffer(kind, n.expression)
    ELSE IF n.node = "TupleExpression" THEN NodeSniffer(kind, n.components[1])
    ELSE IF n.node = "MemberAccess" THEN NodeSniffer(kind, n.expression)
    ELSE NoNode

\* TypeConverter::get_name of an index access: the map indexed.
get_name(map) == map.baseExpression.type.name

\* FunctionUtilities::try_to_wrap.
try_to_wrap(type, e) ==
    IF is_wrapped_type(type) THEN CFuncCall("Init", type.name, <<e>>) ELSE e

AssignmentToBinaryOp(op) ==
    CASE op = "+=" -> "+"
      [] op = "-=" -> "-"
      [] op = ">>=" -> ">>"

\* Which map helper an index access lowers to under the two flags.
MapAccessMode_bug(find_ref, lval) == IF find_ref THEN "Ref" ELSE "Read"
MapAccessMode(find_ref, lval) ==
    IF find_ref THEN "Ref" ELSE IF lval THEN "RefDeref" ELSE "Read"

\* The wrapper an identifier or member access ends with.
Unwrap_bug(find_ref, lval, wrapped) ==
    IF find_ref THEN "&" ELSE IF wrapped /\ ~lval THEN ".v" ELSE ""
Unwrap(find_ref, lval, wrapped) ==
    IF find_ref THEN "&" ELSE IF wrapped THEN ".v" ELSE ""

Wrapper(kind, e) ==
    CASE kind = "&"  -> CReference(e)
      [] kind = ".v" -> CMemberAccess(e, "v")
      [] OTHER       -> e

\* The helper an assignment to a map index calls.
AssignHelper_bug == "Ref"
AssignHelper == "Write"

\* The function a payment call lowers to.
PaymentFunction(kind) == "_pay"

BAL_MEMBER == "model_balance"

\* ---- The visitor ----
\* visit(node, find_ref, lval): m_subexpr after node.accept(*this) with the
\* flags m_find_ref and m_lval; a runtime_error ends the conversion.
RECURSIVE visit(_, _, _)
RECURSIVE push(_, _, _)
RECURSIVE generate_mapping_call(_, _, _)
RECURSIVE generate_binary_op(_, _, _, _, _)
RECURSIVE print_function(_, _, _, _)

\* CFuncCallBuilder::push: the argument is converted by a converter of its
\* own, and wrapped when a wrapped type is expected.
push(expr, is_ref, type) ==
    LET e == visit(expr, is_ref, FALSE)
    IN  IF Thrown(e) \/ is_ref THEN e ELSE try_to_wrap(type, e)

generate_mapping_call(op, map, v) ==
    LET MAP_T == map.baseExpression.type
        base == push(map.baseExpression, TRUE, NoType)
        key == push(map.indexExpression, FALSE, MAP_T.keyType)
        args == <<base, key>>
                  \o (IF v = NoExpr THEN <<>> ELSE <<try_to_wrap(MAP_T.valueType, v)>>)
    IN  IF Thrown(base) THEN base
        ELSE IF Thrown(key) THEN key
        ELSE CFuncCall(op, get_name(map), args)

generate_binary_op(lhs, op, rhs, find_ref, lval) ==
    LET subexpr1 == visit(lhs, find_ref, lval)
        subexpr2 == visit(rhs, find_ref, lval)
    IN  IF Thrown(subexpr1) THEN subexpr1
        ELSE IF Thrown(subexpr2) THEN subexpr2
        ELSE IF op = ">>"
             THEN runtime_error("Unsupported binary operator:>>")
             ELSE CBinaryOp(subexpr1, op, subexpr2)

visitIdentifier(node, find_ref, lval) ==
    Wrapper(Unwrap(find_ref, lval, is_wrapped_type(node.type)),
            CIdentifier(node.name, node.pointer))

visitMemberAccess(node, find_ref, lval) ==
    LET cat == node.expression.type.cat
        member ==
            CASE cat \in {"Contract", "Struct"} ->
                   LET base == visit(node.expression, FALSE, lval)
                   IN  IF Thrown(base) THEN base
                       ELSE CMemberAccess(base, "user_" \o node.memberName)
              [] cat = "Magic" -> CIdentifier(node.memberName, FALSE)
              [] cat = "TypeType" -> CIntLiteral(0)
              [] OTHER -> runtime_error("MemberAccess applied to invalid type.")
        auto_unwrapped == cat = "TypeType"
    IN  IF Thrown(member) THEN member
        ELSE Wrapper(Unwrap(find_ref, lval,
                            is_wrapped_type(node.type) /\ ~auto_unwrapped),
                     member)

visitIndexAccess(node, find_ref, lval) ==
    IF node.baseExpression.type.cat = "Mapping"
    THEN LET mode == MapAccessMode(find_ref, lval)
             mcall == generate_mapping_call(
                        IF mode = "Read" THEN "Read" ELSE "Ref", node, NoExpr)
             expr == IF mode = "RefDeref" THEN CDereference(mcall) ELSE mcall
         IN  IF Thrown(mcall) THEN mcall
             ELSE IF is_wrapped_type(node.type)
                  THEN CMemberAccess(expr, "v")
                  ELSE expr
    ELSE runtime_error("IndexAccess applied to unsupported type.")

\* rightHandSide.accept(*this) while m_last_assignment is swapped to ID: the
\* member reaches the call visited through the tuples around it.
RECURSIVE acceptAssigned(_, _, _, _)
acceptAssigned(node, ID, find_ref, lval) ==
    CASE node.node = "FunctionCall" -> print_function(node, ID, find_ref, lval)
      [] node.node = "TupleExpression" /\ ~node.isInlineArray
                                      /\ Len(node.components) = 1 ->
            acceptAssigned(node.components[1], ID, find_ref, lval)
      [] OTHER -> visit(node, find_ref, lval)

visitAssignment(node, find_ref, lval) ==
    LET ID == LValueSniffer("Identifier", node.leftHandSide)
    IN  IF ID # NoNode /\ ID.type.cat = "Contract"
        THEN acceptAssigned(node.rightHandSide, ID, find_ref, lval)
        ELSE
          LET rhs_ref == ID # NoNode /\ ID.pointer
              rhs == IF node.assignmentOperator # "="
                     THEN generate_binary_op(
                            node.leftHandSide,
                            AssignmentToBinaryOp(node.assignmentOperator),
                            node.rightHandSide, rhs_ref, lval)
                     ELSE visit(node.rightHandSide, rhs_ref, lval)
              map == LValueSniffer("IndexAccess", node.leftHandSide)
          IN  IF Thrown(rhs) THEN rhs
              ELSE IF map # NoNode
                   THEN generate_mapping_call(AssignHelper, map, rhs)
                   ELSE LET lhs == visit(node.leftHandSide, find_ref, TRUE)
                        IN  IF Thrown(lhs) THEN lhs
                            ELSE CBinaryOp(lhs, "=", rhs)


\* FunctionCallAnalyzer: the value set on the call, the expression the method
\* is called on, its identifier, whether the call goes to super, and the
\* arguments.
FunctionCallAnalyzer(fcall) ==
    LET outer == fcall.expression
        setter == /\ outer.node = "FunctionCall"
                  /\ outer.expression.node = "MemberAccess"
                  /\ outer.expression.memberName = "value"
        inner == IF setter THEN outer.expression.expression ELSE outer
        callee == IF inner.node = "TupleExpression"
                  THEN inner.components[1] ELSE inner
        super == /\ callee.node = "MemberAccess"
                 /\ callee.expression.node = "Identifier"
                 /\ callee.expression.name = "super"
        ctx == IF callee.node = "MemberAccess" /\ ~super
               THEN callee.expression ELSE NoNode
    IN  [value |-> IF setter THEN outer.arguments[1] ELSE NoNode,
         context |-> ctx,
         id |-> IF ctx.node = "Identifier" THEN ctx ELSE NoNode,
         is_super |-> super,
         args |-> fcall.arguments]

InitBool(b) == CFuncCall("Init", "sol_bool_t", <<CIntLiteral(b)>>)

\* CallState::compute_next_state_for: the call-state arguments sender, value,
\* blocknum, timestamp, paid and origin of the call built.
compute_next_state_for_bug(is_ext, value) ==
    IF is_ext
    THEN <<CMemberAccess(CIdentifier("self", TRUE), "model_address"),
           IF value = NoExpr THEN CIdentifier("value", FALSE) ELSE value,
           CIdentifier("blocknum", FALSE), CIdentifier("timestamp", FALSE),
           InitBool(1), CIdentifier("origin", FALSE)>>
    ELSE <<CIdentifier("sender", FALSE), CIdentifier("value", FALSE),
           CIdentifier("blocknum", FALSE), CIdentifier("timestamp", FALSE),
           InitBool(0), CIdentifier("origin", FALSE)>>
compute_next_state_for(is_ext, value) ==
    IF is_ext
    THEN <<CMemberAccess(CIdentifier("self", TRUE), "model_address"),
           IF value = NoExpr
           THEN CFuncCall("Init", "sol_uint256_t", <<CIntLiteral(0)>>)
           ELSE value,
           CIdentifier("blocknum", FALSE), CIdentifier("timestamp", FALSE),
           InitBool(1), CIdentifier("origin", FALSE)>>
    ELSE <<CIdentifier("sender", FALSE), CIdentifier("value", FALSE),
           CIdentifier("blocknum", FALSE), CIdentifier("timestamp", FALSE),
           InitBool(0), CIdentifier("origin", FALSE)>>

pass_next_call_state(fcall, is_ext) ==
    LET calldata == FunctionCallAnalyzer(fcall)
        value == IF calldata.value # NoNode
                 THEN LET v == visit(calldata.value, FALSE, FALSE)
                      IN  IF Thrown(v) THEN v ELSE try_to_wrap(UnsignedType, v)
                 ELSE NoExpr
    IN  IF Thrown(value) THEN <<value>>
        ELSE compute_next_state_for(is_ext, value)

\* CFuncCallBuilder::merge_and_pop, or the first error thrown while the
\* arguments were pushed.
merge_and_pop(op, id, args) ==
    IF \E i \in DOMAIN args : Thrown(args[i])
    THEN args[CHOOSE i \in DOMAIN args :
                 Thrown(args[i]) /\ \A j \in 1..(i - 1) : ~Thrown(args[j])]
    ELSE CFuncCall(op, id, args)

\* The user arguments pushed, each with the type of its parameter.
push_all(args, params) ==
    [i \in 1..Len(args) |-> push(args[i], FALSE, params[i])]

print_method(ftype, fcall, find_ref, lval) ==
    LET calldata == FunctionCallAnalyzer(fcall)
        is_ext_call == ~calldata.is_super /\ calldata.context # NoNode
        receiver ==
            IF is_ext_call
            THEN LET e == visit(calldata.context, find_ref, lval)
                 IN  IF Thrown(e) \/ (calldata.id # NoNode /\ calldata.id.pointer)
                     THEN e ELSE CReference(e)
            ELSE CIdentifier("self", TRUE)
        built == merge_and_pop("Method", ftype.callname,
                    <<receiver>> \o pass_next_call_state(fcall, is_ext_call)
                                 \o push_all(calldata.args, ftype.params))
    IN  IF ~Thrown(built) /\ Len(ftype.returns) = 1
                          /\ is_wrapped_type(ftype.returns[1])
        THEN CMemberAccess(built, "v")
        ELSE built

\* last is m_last_assignment; the samples create contracts on the right of
\* an assignment to a contract variable only, where the member is set.
print_contract_ctor(fcall, last) ==
    LET contract_type == NodeSniffer("NewExpression", fcall)
    IN  IF contract_type = NoNode
        THEN runtime_error("Contract constructor called without TypeName.")
        ELSE merge_and_pop("Init", contract_type.typeName,
                <<CReference(CIdentifier(last.name, FALSE))>>
                  \o pass_next_call_state(fcall, TRUE)
                  \o push_all(fcall.arguments, contract_type.type.params))

print_assertion(type, args) ==
    IF args = <<>>
    THEN runtime_error("Assertion requires condition.")
    ELSE merge_and_pop(type, "", <<push(args[1], FALSE, NoType), CIntLiteral(0)>>)

print_payment(fcall) ==
    IF Len(fcall.arguments) # 1
    THEN runtime_error("Payment calls require payment amount.")
    ELSE LET access == NodeSniffer("MemberAccess", fcall)
         IN  IF access # NoNode
             THEN LET balref == CReference(
                          CMemberAccess(CIdentifier("self", TRUE), BAL_MEMBER))
                      DST == push(access.expression, FALSE, AddressType)
                      AMT == push(fcall.arguments[1], FALSE, UnsignedType)
                  IN  IF Thrown(DST) THEN DST
                      ELSE IF Thrown(AMT) THEN AMT
                      ELSE CFuncCall(
                             PaymentFunction(fcall.expression.type.name), "",
                             <<balref, DST, AMT>>)
             ELSE runtime_error("Unable to extract address from payment call.")

\* The function kinds print_function rejects, each with the message of the
\* runtime_error thrown (the backquotes of the messages written as ').
UnsupportedCalls ==
    ("DelegateCall" :> "Delegate calls are unsupported.")
    @@ ("BareDelegateCall" :> "Delegate calls are unsupported.")
    @@ ("BareCallCode" :> "Delegate calls are unsupported.")
    @@ ("KECCAK256" :> "KECCAK256 not yet supported.")
    @@ ("Selfdestruct" :> "Selfdestruct unsupported.")
    @@ ("Revert" :> "Revert not yet supported.")
    @@ ("ECRecover" :> "ECRecover not yet supported.")
    @@ ("SHA256" :> "SHA256 not yet supported.")
    @@ ("RIPEMD160" :> "RIPEMD160 not yet supported.")
    @@ ("Log0" :> "Logging is not verified.")
    @@ ("Log1" :> "Logging is not verified.")
    @@ ("Log2" :> "Logging is not verified.")
    @@ ("Log3" :> "Logging is not verified.")
    @@ ("Log4" :> "Logging is not verified.")
    @@ ("Event" :> "Logging is not verified.")
    @@ ("SetGas" :> "'gas(<val>)' not yet supported.")
    @@ ("SetValue" :> "'value(<val>)' not yet supported.")
    @@ ("BlockHash" :> "'block.blockhash(<val>)' not yet supported.")
    @@ ("AddMod" :> "AddMod not yet supported.")
    @@ ("MulMod" :> "AddMod not yet supported.")
    @@ ("ArrayPush" :> "'<array>.push(<val>)' not yet supported.")
    @@ ("ByteArrayPush" :> "'<array>.push(<val>)' not yet supported.")
    @@ ("ArrayPop" :> "'<array>.pop()' not yet supported.")
    @@ ("ObjectCreation" :> "'new <array>' not yet supported.")
    @@ ("ABIEncode" :> "'abi.encode(...)' unsupported.")
    @@ ("ABIEncodePacked" :> "'abi.encodePacked(...)' unsupported.")
    @@ ("ABIEncodeWithSelector" :> "'abi.encodeWithSelector(...)' unsupported.")
    @@ ("ABIEncodeWithSignature" :> "'abi.encodeWithSignature(...)' unsupported.")
    @@ ("ABIDecode" :> "'abi.decode(...)' unsupported.")
    @@ ("GasLeft" :> "GasLeft not yet supported.")

print_function(fcall, last, find_ref, lval) ==
    LET ftype == fcall.expression.type
        kind == ftype.name
    IN  IF ftype.cat # "Function"
        THEN runtime_error("Function encountered without type annotations.")
        ELSE CASE kind \in {"Internal", "External"} ->
                    print_method(ftype, fcall, find_ref, lval)
               [] kind \in DOMAIN UnsupportedCalls ->
                    runtime_error(UnsupportedCalls[kind])
               [] kind = "Creation" -> print_contract_ctor(fcall, last)
               [] kind \in {"send", "transfer"} -> print_payment(fcall)
               [] kind = "Assert" -> print_assertion("sol_assert", fcall.arguments)
               [] kind = "Require" -> print_assertion("sol_require", fcall.arguments)
               [] kind = "MetaType" -> NoExpr
               [] OTHER -> runtime_error("Unexpected function call type.")

visitTupleExpression(node, find_ref, lval) ==
    IF node.isInlineArray
    THEN runtime_error("Inline arrays not yet supported.")
    ELSE IF Len(node.components) > 1
    THEN runtime_error("Multivalue tuples not yet supported.")
    ELSE IF node.components # <<>>
    THEN visit(node.components[1], find_ref, lval)
    ELSE NoExpr

CUnaryOp(op, e, prefix) == [c |-> "CUnaryOp", op |-> op, e |-> e, prefix |-> prefix]

visitUnaryOperation(node, find_ref, lval) ==
    LET e == visit(node.subExpression, find_ref, lval)
    IN  IF Thrown(e) THEN e
        ELSE IF node.op = "delete"
        THEN runtime_error("Delete not yet supported.")
        ELSE CUnaryOp(node.op, e, TRUE)

visit(node, find_ref, lval) ==
    CASE node.node = "Identifier" -> visitIdentifier(node, find_ref, lval)
      [] node.node = "Literal" -> CIntLiteral(node.value)
      [] node.node = "MemberAccess" -> visitMemberAccess(node, find_ref, lval)
      [] node.node = "IndexAccess" -> visitIndexAccess(node, find_ref, lval)
      [] node.node = "TupleExpression" ->
            visitTupleExpression(node, find_ref, lval)
      [] node.node = "UnaryOperation" ->
            visitUnaryOperation(node, find_ref, lval)
      [] node.node = "Assignment" -> visitAssignment(node, find_ref, lval)
      [] node.node = "FunctionCall" ->
            print_function(node, NoNode, find_ref, lval)

\* ---- The expressions converted ----
\* The declarations of contract A of map_assignment and the parameter of
\* payment_function_calls.
user_a == Identifier("self->user_a",
                     MappingType("Map_2", IntegerType, IntegerType), FALSE)
user_b == Identifier("self->user_b",
                     MappingType("Map_3", IntegerType, StructType("A_StructB")),
                     FALSE)
user_c == Identifier("self->user_c", StructType("A_StructC"), FALSE)
user_d == Identifier("self->user_d",
                     MappingType("Map_4", IntegerType,
                        MappingType("Map_4_submap1", IntegerType, IntegerType)),
                     FALSE)
func_user_x == Identifier("func_user_x", IntegerType, FALSE)
func_user_dst == Identifier("func_user_dst", AddressType, FALSE)
func_user_s == Identifier("func_user_s", StructType("A_StructB"), TRUE)
c_m == MemberAccess(user_c, "m", MappingType("Map_1", IntegerType, IntegerType))

IndexExpressions == {Literal(1), func_user_x}

\* Identifiers, member accesses and map index accesses.
Selectors ==
    {func_user_x, func_user_dst, func_user_s,
     MemberAccess(func_user_s, "m", IntegerType),
     MemberAccess(Identifier("msg", MagicType, FALSE), "sender", AddressType),
     MemberAccess(Identifier("E", TypeType, FALSE), "A", EnumType)}
    \cup {IndexAccess(user_a, k) : k \in IndexExpressions}
    \cup {IndexAccess(user_b, k) : k \in IndexExpressions}
    \cup {MemberAccess(IndexAccess(user_b, k), "m", IntegerType) : k \in IndexExpressions}
    \cup {IndexAccess(c_m, k) : k \in IndexExpressions}
    \cup {IndexAccess(IndexAccess(user_d, k), Literal(2)) : k \in IndexExpressions}

LeftHandSides ==
    {s \in Selectors : s.type.cat = "Integer"}
    \cup {TupleExpression(IndexAccess(user_a, Literal(1)))}

RightHandSides == {Literal(2), func_user_x, IndexAccess(user_a, Literal(1))}

Assignments ==
    {Assignment(l, op, r) :
        l \in LeftHandSides, op \in {"=", "+=", ">>="}, r \in RightHandSides}

Callees(kind) ==
    {MemberAccess(func_user_dst, kind, FunctionType(kind)),
     TupleExpression(MemberAccess(func_user_dst, kind, FunctionType(kind))),
     Identifier("pay", FunctionType(kind), FALSE)}

PaymentKinds == {"transfer", "send"}

ArgumentLists == {<<>>, <<Literal(5)>>, <<Literal(5), Literal(6)>>}

Payments ==
    {FunctionCall(callee, args) :
        callee \in UNION {Callees(kind) : kind \in PaymentKinds},
        args \in ArgumentLists}

\* The contract variable a and this, as identifiers of contract B of
\* external_method_calls.
ctx_a == Identifier("self->user_a", ContractType("A"), FALSE)
this == Identifier("self", ContractType("B"), TRUE)

\* The methods called: A.f(), A.g(int) and A.r() returns (int).
Signatures ==
    {[id |-> "A_Funcf", params |-> <<>>, returns |-> <<>>, args |-> <<>>],
     [id |-> "A_Funcg", params |-> <<IntegerType>>, returns |-> <<>>,
      args |-> <<Literal(1)>>],
     [id |-> "A_Funcr", params |-> <<>>, returns |-> <<IntegerType>>,
      args |-> <<>>]}

Amounts == {Literal(5), func_user_x}

\* f(..) and super.f(..).
InternalCalls ==
    UNION {LET type == MethodType("Internal", m.id, m.params, m.returns)
           IN  {FunctionCall(Identifier("f", type, FALSE), m.args),
                FunctionCall(
                    MemberAccess(Identifier("super", ContractType("A"), TRUE),
                                 "f", type), m.args)}
           : m \in Signatures}

\* a.f(..), this.f(..), (a.f)(..) and a.f.value(v)(..).
ExternalCalls ==
    UNION {LET type == MethodType("External", m.id, m.params, m.returns)
               callee == MemberAccess(ctx, "f", type)
           IN  {FunctionCall(callee, m.args),
                FunctionCall(TupleExpression(callee), m.args)}
               \cup {FunctionCall(SetValue(callee, v), m.args) : v \in Amounts}
           : m \in Signatures, ctx \in {ctx_a, this}}

\* a = new A(), a = new B(10), a = (new A()) and a = (new A).value(v)().
Creations ==
    LET new_A == NewExpression("A", <<>>)
        new_B == NewExpression("B", <<IntegerType>>)
    IN  {Assignment(ctx_a, "=", rhs) :
            rhs \in {FunctionCall(new_A, <<>>),
                     FunctionCall(new_B, <<Literal(10)>>),
                     TupleExpression(FunctionCall(new_A, <<>>))}
                    \cup {FunctionCall(SetValue(new_A, v), <<>>) : v \in Amounts}}

\* Calls of every kind print_function does not lower to a method, a
\* constructor or a payment; unary operations; tuples and inline arrays.
OtherCalls ==
    {FunctionCall(Identifier("fn", FunctionType(kind), FALSE), args) :
        kind \in DOMAIN UnsupportedCalls \cup {"MetaType", "Assert", "Require"},
        args \in {<<>>, <<Literal(5)>>}}

Operations ==
    {UnaryOperation(op, e) :
        op \in {"delete", "!", "-"},
        e \in {func_user_x, IndexAccess(user_a, Literal(1))}}
    \cup {Components(<<Literal(1), Literal(2)>>, TRUE),
          Components(<<Literal(1)>>, TRUE),
          Components(<<Literal(1), Literal(2)>>, FALSE),
          Components(<<>>, FALSE)}

\* One accept of the visitor on a node under the flags of the converter.
Accept ==
    /\ epc = "visit"
    /\ m_subexpr' = visit(e_node, m_find_ref, m_lval)
    /\ epc' = "done"
    /\ UNCHANGED <<e_node, m_find_ref, m_lval>>
    /\ UNCHANGED <<mvars, hvars, bvars, pvars, lvars, svars, avars, ivars>>

ExprNext == Accept

ExprInit(nodes, refs, lvals) ==
    /\ epc = "visit"
    /\ e_node \in nodes
    /\ m_find_ref \in refs
    /\ m_lval \in lvals
    /\ m_subexpr = NoExpr

ExprIdle ==
    /\ epc = "done"
    /\ e_node = NoNode
    /\ m_find_ref = FALSE
    /\ m_lval = FALSE
    /\ m_subexpr = NoExpr

\* ========================================================================
\* Part 7: block lowering (GeneralBlockConverter, FunctionBlockConverter):
\*         the scope frames of VariableScopeResolver and the value handler.
\* ========================================================================
\* Largest call value and balance tried when a lowered body is entered.
MaxPay == 1

\* ---- Statements of a function body ----
Stmt(kind, name, body, orelse) ==
    [kind |-> kind, name |-> name, body |-> body, orelse |-> orelse]

\* The state variables a and c of contract A may be shadowed by locals.
LocalNames == {"a", "c"}

SimpleStatements ==
    {Stmt(k, n, <<>>, <<>>) : k \in {"decl", "use"}, n \in LocalNames}
    \cup {Stmt("return", "", <<>>, <<>>), Stmt("throw", "", <<>>, <<>>)}

Bodies1 == {<<s>> : s \in SimpleStatements}

\* Blocks, if/else, while and for statements over simple statements; the
\* name of a for statement is the variable its initializer declares.
CompoundStatements ==
    {Stmt("block", "", <<d, s>>, <<>>) :
        d \in {Stmt("decl", n, <<>>, <<>>) : n \in LocalNames},
        s \in SimpleStatements}
    \cup {Stmt("if", "a", b, <<>>) : b \in Bodies1}
    \cup {Stmt("if", "a", b, e) : b \in Bodies1, e \in Bodies1}
    \cup {Stmt("while", "a", b, <<>>) : b \in Bodies1}
    \cup {Stmt("for", n, b, <<>>) : n \in LocalNames \cup {""}, b \in Bodies1}

NestedStatements ==
    {Stmt("block", "", <<Stmt("decl", "a", <<>>, <<>>), s>>, <<>>) :
        s \in {t \in CompoundStatements : t.kind \in {"block", "for"}}}

\* int b-like prefix, one compound statement, one use after it.
FunctionBodies ==
    {d \o <<s, Stmt("use", n, <<>>, <<>>)>> :
        d \in {<<>>, <<Stmt("decl", "c", <<>>, <<>>)>>},
        s \in CompoundStatements \cup NestedStatements,
        n \in LocalNames}

Tok(op, name) == [op |-> op, name |-> name]

\* The visits of one statement in order. begin and end delimit a compound
\* statement; enter and exit are the frames pushed and popped for it.
RECURSIVE VisitStatement(_)
RECURSIVE VisitAll(_)
VisitBlock(body) == <<Tok("enter", "")>> \o VisitAll(body) \o <<Tok("exit", "")>>
ForScope_bug(s) ==
    (IF s.name = "" THEN <<>> ELSE <<Tok("decl", s.name)>>) \o VisitBlock(s.body)
ForScope(s) ==
    <<Tok("enter", "")>>
      \o (IF s.name = "" THEN <<>> ELSE <<Tok("decl", s.name)>>)
      \o VisitBlock(s.body)
      \o <<Tok("exit", "")>>
VisitStatement(s) ==
    CASE s.kind \in {"decl", "use", "return", "throw"} -> <<Tok(s.kind, s.name)>>
      [] s.kind = "block" ->
           <<Tok("begin", "")>> \o VisitBlock(s.body) \o <<Tok("end", "")>>
      [] s.kind = "if" ->
           <<Tok("use", s.name)>>
             \o <<Tok("begin", "")>> \o VisitBlock(s.body) \o <<Tok("end", "")>>
             \o (IF s.orelse = <<>> THEN <<>>
                 ELSE <<Tok("begin", "")>> \o VisitBlock(s.orelse)
                        \o <<Tok("end", "")>>)
      [] s.kind = "while" ->
           <<Tok("use", s.name)>>
             \o <<Tok("begin", "")>> \o VisitBlock(s.body) \o <<Tok("end", "")>>
      [] s.kind = "for" ->
           <<Tok("begin", "")>> \o ForScope(s) \o <<Tok("end", "")>>
VisitAll(body) ==
    IF body = <<>> THEN <<>>
    ELSE VisitStatement(Head(body)) \o VisitAll(Tail(body))

\* VariableScopeResolver::resolve_identifier: the innermost binding, else
\* the state variable of self.
resolve_identifier(scopes, name) ==
    IF \E k \in 1..Len(scopes) : name \in scopes[k]
    THEN "func_user_" \o name
    ELSE "self->user_" \o name

VALUE_HANDLER ==
    [stmt |-> "if(((paid).v)==(1))(((self)->model_balance).v)+=((value).v);",
     name |-> ""]

\* enter(): the frame of the function and, for a payable function whose pay
\* is managed by the block, the value handler.
HandlesValue_bug(func) == func.manage_pay
HandlesValue(func) == func.manage_pay /\ func.is_payable

EnterFunction ==
    /\ spc = "enter"
    /\ s_scopes' = <<{}>>
    /\ s_block' = IF HandlesValue(s_func) THEN <<VALUE_HANDLER>> ELSE <<>>
    /\ s_code' = VisitAll(s_func.body)
    /\ spc' = "lower"
    /\ UNCHANGED <<s_func, s_marks, s_closed, s_call>>
    /\ UNCHANGED <<mvars, hvars, bvars, pvars, lvars, evars, avars, ivars>>

\* The frames after one visit.
PopFrame_bug(scopes) == scopes
PopFrame(scopes) == SubSeq(scopes, 1, Len(scopes) - 1)

Scoped(tok, scopes) ==
    CASE tok.op = "enter" -> Append(scopes, {})
      [] tok.op = "exit" -> PopFrame(scopes)
      [] tok.op = "decl" ->
           [scopes EXCEPT ![Len(scopes)] = @ \cup {tok.name}]
      [] OTHER -> scopes

Lowered(tok, scopes) ==
    CASE tok.op = "decl" ->
           <<[stmt |-> "sol_int256_t", name |-> "func_user_" \o tok.name]>>
      [] tok.op = "use" ->
           <<[stmt |-> "expr", name |-> resolve_identifier(scopes, tok.name)]>>
      [] tok.op = "return" -> <<[stmt |-> "return", name |-> ""]>>
      [] OTHER -> <<>>

NoClosed == [before |-> <<>>, after |-> <<>>, declared |-> "", closed |-> FALSE]

\* One visit of the block converter.
Lower ==
    /\ spc = "lower"
    /\ s_code # <<>>
    /\ Head(s_code).op # "throw"
    /\ LET tok == Head(s_code)
       IN  /\ s_scopes' = Scoped(tok, s_scopes)
           /\ s_block' = s_block \o Lowered(tok, s_scopes')
           /\ s_marks' =
                CASE tok.op = "begin" ->
                       Append(s_marks, [scopes |-> s_scopes, declared |-> ""])
                  [] tok.op = "end" -> SubSeq(s_marks, 1, Len(s_marks) - 1)
                  [] tok.op = "decl" ->
                       [k \in 1..Len(s_marks) |->
                          [s_marks[k] EXCEPT !.declared = tok.name]]
                  [] OTHER -> s_marks
           /\ s_closed' =
                IF tok.op = "end"
                THEN [before |-> s_marks[Len(s_marks)].scopes,
                      after |-> s_scopes,
                      declared |-> s_marks[Len(s_marks)].declared,
                      closed |-> TRUE]
                ELSE s_closed
    /\ s_code' = Tail(s_code)
    /\ UNCHANGED <<spc, s_func, s_call>>
    /\ UNCHANGED <<mvars, hvars, bvars, pvars, lvars, evars, avars, ivars>>

\* throw is fatal: the conversion unwinds, its frames are released and its
\* partial output is discarded.
Throw ==
    /\ spc = "lower"
    /\ s_code # <<>>
    /\ Head(s_code).op = "throw"
    /\ spc' = "fatal"
    /\ s_scopes' = <<>>
    /\ s_block' = <<>>
    /\ s_code' = <<>>
    /\ UNCHANGED <<s_func, s_marks, s_closed, s_call>>
    /\ UNCHANGED <<mvars, hvars, bvars, pvars, lvars, evars, avars, ivars>>

\* exit(): the frame of the function is released.
ExitFunction ==
    /\ spc = "lower"
    /\ s_code = <<>>
    /\ s_scopes' = PopFrame(s_scopes)
    /\ spc' = "converted"
    /\ UNCHANGED <<s_func, s_code, s_block, s_marks, s_closed, s_call>>
    /\ UNCHANGED <<mvars, hvars, bvars, pvars, lvars, evars, avars, ivars>>

NoPayment == [paid |-> 0, value |-> 0, balance |-> 0, after |-> 0, entered |-> FALSE]

\* The lowered body is entered: its first statement runs.
EnterBody ==
    /\ spc = "converted"
    /\ \E paid \in 0..1, value \in 0..MaxPay, balance \in 0..MaxPay :
          s_call' = [paid |-> paid, value |-> value, balance |-> balance,
                     after |-> IF /\ s_block # <<>>
                                  /\ s_block[1] = VALUE_HANDLER
                                  /\ paid = 1
                               THEN balance + value
                               ELSE balance,
                     entered |-> TRUE]
    /\ spc' = "done"
    /\ UNCHANGED <<s_func, s_code, s_scopes, s_block, s_marks, s_closed>>
    /\ UNCHANGED <<mvars, hvars, bvars, pvars, lvars, evars, avars, ivars>>

ScopeNext == EnterFunction \/ Lower \/ Throw \/ ExitFunction \/ EnterBody

ScopeInit(bodies, flags) ==
    /\ spc = "enter"
    /\ s_func \in [body : bodies, manage_pay : flags, is_payable : flags]
    /\ s_code = <<>>
    /\ s_scopes = <<>>
    /\ s_block = <<>>
    /\ s_marks = <<>>
    /\ s_closed = NoClosed
    /\ s_call = NoPayment

ScopeIdle ==
    /\ spc = "done"
    /\ s_func = [body |-> <<>>, manage_pay |-> FALSE, is_payable |-> FALSE]
    /\ s_code = <<>>
    /\ s_scopes = <<>>
    /\ s_block = <<>>
    /\ s_marks = <<>>
    /\ s_closed = NoClosed
    /\ s_call = NoPayment

\* ========================================================================
\* Part 8: the taint analysis of one function (TaintAnalysis).
\* ========================================================================
MaxSources == 2      \* tainted sources are numbered 0..MaxSources-1
MaxStatements == 2   \* statements of the function analysed
MaxTaints == 1       \* bits marked with taint(v, i) before the run

Sources == 0..(MaxSources - 1)

\* The variable declarations of the function.
Declarations == {"x", "y", "z"}

\* The right-hand sides: a literal, the variable y, the parameter z, a call,
\* and the sum x + z. An expression is the sequence of the declarations
\* referenced and the calls made in it.
TaintExpressions == {<<>>, <<"y">>, <<"z">>, <<"call">>, <<"x", "z">>}

\* v = e, or the declaration of v initialised with e, for the locals x and
\* y; the parameter z is only read.
TaintStatements ==
    {[dest |-> v, expr |-> e] : v \in {"x", "y"}, e \in TaintExpressions}

TaintBodies ==
    UNION {[1..n -> TaintStatements] : n \in 0..MaxStatements}

\* The taint database before the first taint(v, i).
NoTaint == [v \in {} |-> {}]

\* m_default_taint: the response for a variable the database does not hold.
m_default_taint == {}

taint_for(db, decl) ==
    IF decl \in DOMAIN db THEN db[decl] ELSE m_default_taint

\* The database with the bits added to those of decl.
Tainted(db, decl, bits) ==
    [v \in DOMAIN db \cup {decl} |->
        IF v = decl THEN taint_for(db, v) \cup bits ELSE db[v]]

\* Moves the taint of ref to the taintee.
propogate_bug(db, m_taintee, ref) ==
    [v \in DOMAIN db \cup {m_taintee} |->
        IF v = m_taintee THEN taint_for(db, ref) ELSE db[v]]
propogate(db, m_taintee, ref) ==
    Tainted(db, m_taintee, taint_for(db, ref))

\* Applies all taint to the taintee.
propogate_unknown_bug(db, m_taintee) == Tainted(db, m_taintee, {})
propogate_unknown(db, m_taintee) == Tainted(db, m_taintee, Sources)

\* The visit of an expression with the taintee set: every identifier or
\* member access propagates from its declaration, every call all taint.
RECURSIVE VisitExpression(_, _, _)
VisitExpression(db, m_taintee, expr) ==
    IF expr = <<>> THEN db
    ELSE VisitExpression(
            IF Head(expr) = "call"
            THEN propogate_unknown(db, m_taintee)
            ELSE propogate(db, m_taintee, Head(expr)),
            m_taintee, Tail(expr))

\* visit(Assignment), visit(VariableDeclarationStatement).
VisitTaintStatement(db, s) == VisitExpression(db, s.dest, s.expr)

\* Whether the bits of some variable differ.
BitsChanged(db, after) ==
    \E v \in Declarations : taint_for(db, v) # taint_for(after, v)

\* Whether run makes another pass after one that ended with m_changed.
Repeats_bug(changed) == FALSE
Repeats(changed) == changed

\* taint(_decl, _i), before the analysis runs.
Taint ==
    /\ apc = "taint"
    /\ Cardinality({<<v, i>> \in Declarations \X Sources :
                       i \in taint_for(m_taint, v)}) < MaxTaints
    /\ \E v \in Declarations, i \in Sources :
          m_taint' = Tainted(m_taint, v, {i})
    /\ UNCHANGED <<apc, a_body, m_changed, a_next, a_passes, a_marked>>
    /\ UNCHANGED <<mvars, hvars, bvars, pvars, lvars, evars, svars, ivars>>

\* run(_decl): the first pass starts.
Run ==
    /\ apc = "taint"
    /\ apc' = "pass"
    /\ m_changed' = FALSE
    /\ a_next' = 1
    /\ a_passes' = 1
    /\ a_marked' = m_taint
    /\ UNCHANGED <<a_body, m_taint>>
    /\ UNCHANGED <<mvars, hvars, bvars, pvars, lvars, evars, svars, ivars>>

\* The pass visits its next statement.
VisitNext ==
    /\ apc = "pass"
    /\ a_next <= Len(a_body)
    /\ LET after == VisitTaintStatement(m_taint, a_body[a_next])
       IN  /\ m_taint' = after
           /\ m_changed' = (m_changed \/ BitsChanged(m_taint, after))
    /\ a_next' = a_next + 1
    /\ UNCHANGED <<apc, a_body, a_passes, a_marked>>
    /\ UNCHANGED <<mvars, hvars, bvars, pvars, lvars, evars, svars, ivars>>

\* The pass is over: another one follows when a bit changed.
EndPass ==
    /\ apc = "pass"
    /\ a_next > Len(a_body)
    /\ IF Repeats(m_changed)
       THEN /\ m_changed' = FALSE
            /\ a_next' = 1
            /\ a_passes' = a_passes + 1
            /\ UNCHANGED apc
       ELSE /\ apc' = "done"
            /\ UNCHANGED <<m_changed, a_next, a_passes>>
    /\ UNCHANGED <<a_body, m_taint, a_marked>>
    /\ UNCHANGED <<mvars, hvars, bvars, pvars, lvars, evars, svars, ivars>>

TaintNext == Taint \/ Run \/ VisitNext \/ EndPass

TaintInit(bodies) ==
    /\ apc = "taint"
    /\ a_body \in bodies
    /\ m_taint = NoTaint
    /\ m_changed = FALSE
    /\ a_next = 1
    /\ a_passes = 0
    /\ a_marked = NoTaint

TaintIdle ==
    /\ apc = "done"
    /\ a_body = <<>>
    /\ m_taint = NoTaint
    /\ m_changed = FALSE
    /\ a_next = 1
    /\ a_passes = 0
    /\ a_marked = NoTaint

\* ========================================================================
\* Part 9: the map invariants and the interference block of the harness
\* (MainFunctionGenerator::print_invariants, expand_interference), and a
\* KeyIterator that is called on.
\* ========================================================================
MaxMaps == 2   \* map descriptors in m_maps

\* invariant_mode of the configuration, as the two members read by the
\* generator see it.
InvariantModes == {"none", "existential", "universal"}
m_invar_rule(mode) == IF mode = "none" THEN "None" ELSE "Checked"
m_invar_type(mode) == IF mode = "universal" THEN "Universal" ELSE "Singleton"

\* m_maps: entry k has the id k - 1; a descriptor carries the number of its
\* keys and whether its values are structures.
MapDescriptors(n) ==
    {maps \in [1..n -> [id : 0..(n - 1), depth : 1..MaxDepth, struct : BOOLEAN]] :
        \A k \in 1..n : maps[k].id = k - 1}

MapLists == UNION {MapDescriptors(n) : n \in 0..MaxMaps}

\* print_invariants: the ids of the Inv_<id> functions defined, and whether
\* the struct-valued map that stops the printer was met.
RECURSIVE print_invariants(_, _)
print_invariants(mode, maps) ==
    IF m_invar_rule(mode) = "None" \/ maps = <<>>
    THEN [defs |-> <<>>, thrown |-> FALSE]
    ELSE IF Head(maps).struct
         THEN [defs |-> <<>>, thrown |-> TRUE]
         ELSE LET rest == print_invariants(mode, Tail(maps))
              IN  [defs |-> <<Head(maps).id>> \o rest.defs,
                   thrown |-> rest.thrown]

\* The initial index of expand_interference.
InterferenceOffset_bug(mode, implicit_count) == implicit_count
InterferenceOffset(mode, implicit_count) ==
    IF m_invar_type(mode) # "Universal" THEN implicit_count ELSE 0

\* The iterator expand_interference makes for a map.
IndicesFor(map, mode, count, implicit_count) ==
    KeyIterator(count, map.depth, InterferenceOffset(mode, implicit_count))

\* apply_invariant with _assert unset: require(Inv_<id>(data)).
apply_invariant(map, FIELD) ==
    [stmt |-> "require", inv |-> map.id, path |-> map.id, field |-> FIELD]

\* The statements of one round for the map: the cell is assigned a
\* non-deterministic value and the invariant is applied to it.
InitializeField(map, it) ==
    IF is_full(it)
    THEN LET FIELD == <<"d", "a", "t", "a">> \o suffix(it.m_indices)
         IN  <<[stmt |-> "assign", path |-> map.id, field |-> FIELD],
               apply_invariant(map, FIELD)>>
    ELSE <<>>

\* print_invariants writes the definitions, or stops on a struct-valued map.
PrintInvariants ==
    /\ ipc = "print"
    /\ LET r == print_invariants(i_mode, m_maps)
       IN  /\ i_defs' = r.defs
           /\ ipc' = IF r.thrown THEN "fatal"
                     ELSE IF m_maps = <<>> THEN "done" ELSE "expand"
    /\ i_map' = 1
    /\ i_iter' = IF m_maps = <<>> THEN NoIterator
                 ELSE IndicesFor(m_maps[1], i_mode, i_count, i_implicit)
    /\ UNCHANGED <<i_mode, m_maps, i_count, i_implicit, i_block, i_ret, i_calls>>
    /\ UNCHANGED <<mvars, hvars, bvars, pvars, lvars, evars, svars, avars>>

\* One round of the do-while loop of expand_interference; when next()
\* returns false the loop over m_maps goes on to the next map.
ExpandRound ==
    /\ ipc = "expand"
    /\ i_block' = i_block \o InitializeField(m_maps[i_map], i_iter)
    /\ LET r == next(i_iter)
       IN  IF r.ret
           THEN /\ i_iter' = r.it
                /\ UNCHANGED <<ipc, i_map>>
           ELSE IF i_map < Len(m_maps)
           THEN /\ i_map' = i_map + 1
                /\ i_iter' = IndicesFor(m_maps[i_map + 1], i_mode,
                                        i_count, i_implicit)
                /\ UNCHANGED ipc
           ELSE /\ ipc' = "done"
                /\ i_iter' = r.it
                /\ UNCHANGED i_map
    /\ UNCHANGED <<i_mode, m_maps, i_count, i_implicit, i_defs, i_ret, i_calls>>
    /\ UNCHANGED <<mvars, hvars, bvars, pvars, lvars, evars, svars, avars>>

\* next() is called on an iterator, also after it returned false.
CallNext ==
    /\ ipc = "iterate"
    /\ LET r == next(i_iter)
       IN  /\ i_iter' = r.it
           /\ i_ret' = IF r.ret THEN "true" ELSE "false"
    /\ i_calls' = IF i_ret = "false" THEN 1 ELSE i_calls + 1
    /\ UNCHANGED <<ipc, i_mode, m_maps, i_count, i_implicit, i_defs, i_block, i_map>>
    /\ UNCHANGED <<mvars, hvars, bvars, pvars, lvars, evars, svars, avars>>

InterferenceNext == PrintInvariants \/ ExpandRound \/ CallNext

\* Either the generator runs on a configuration, or an iterator is used.
InterferenceInit(modes, lists, iters) ==
    /\ ipc \in {"print", "iterate"}
    /\ i_mode \in (IF ipc = "print" THEN modes ELSE {"none"})
    /\ m_maps \in (IF ipc = "print" THEN lists ELSE {<<>>})
    /\ i_count \in (IF ipc = "print" THEN 0..MaxWidth ELSE {0})
    /\ i_implicit \in 0..i_count
    /\ i_iter \in (IF ipc = "iterate" THEN iters ELSE {NoIterator})
    /\ i_defs = <<>>
    /\ i_block = <<>>
    /\ i_map = 1
    /\ i_ret = "none"
    /\ i_calls = 0

InterferenceIdle ==
    /\ ipc = "done"
    /\ i_mode = "none"
    /\ m_maps = <<>>
    /\ i_count = 0
    /\ i_implicit = 0
    /\ i_iter = NoIterator
    /\ i_defs = <<>>
    /\ i_block = <<>>
    /\ i_map = 1
    /\ i_ret = "none"
    /\ i_calls = 0

TranslationIdle == BlockIdle /\ PrintIdle /\ LiteralIdle /\ ExprIdle /\ ScopeIdle /\ TaintIdle /\ InterferenceIdle

\* ------------------------------------------------------------------------
\* Specifications.
\* ------------------------------------------------------------------------
\* The map abstraction under arbitrary sequences of helper calls.
InitMap == MapInit /\ HarnessIdle /\ TranslationIdle

SpecMap == InitMap /\ [][MapNext]_vars

\* The harness for small bundles under every configuration.
InitHarness ==
    /\ MapIdle
    /\ HarnessInit(SmallBundles, BOOLEAN, BOOLEAN, 1..MaxClients)
    /\ TranslationIdle

SpecHarness == InitHarness /\ [][HarnessNext]_vars

\* The harness for bundles with about 2^8 cases.
InitSwitch ==
    /\ MapIdle
    /\ HarnessInit(LargeBundles, {TRUE}, {FALSE}, {1})
    /\ TranslationIdle

SpecSwitch == InitSwitch /\ [][HarnessNext]_vars

\* The modifier chain of every function definition, converted and run.
InitBlock ==
    /\ MapIdle
    /\ HarnessIdle
    /\ InterferenceIdle
    /\ TaintIdle
    /\ ScopeIdle
    /\ BlockInit(FunctionDefinitions)
    /\ PrintIdle
    /\ LiteralIdle
    /\ ExprIdle

SpecBlock == InitBlock /\ [][BlockNext]_vars

\* The main-function printers on every sample contract and key iterator.
InitPrint ==
    /\ MapIdle
    /\ HarnessIdle
    /\ InterferenceIdle
    /\ TaintIdle
    /\ ScopeIdle
    /\ BlockIdle
    /\ PrintInit({"printer", "harness", "interference"},
                 SampleContracts, KeyIterators)
    /\ LiteralIdle
    /\ ExprIdle

SpecPrint == InitPrint /\ [][PrintNext]_vars

\* Every small number literal under every sub-denomination.
InitLiteral ==
    /\ MapIdle
    /\ HarnessIdle
    /\ InterferenceIdle
    /\ TaintIdle
    /\ ScopeIdle
    /\ BlockIdle
    /\ PrintIdle
    /\ LiteralInit(0..MaxLiteral, SubDenominations)
    /\ ExprIdle

SpecLiteral == InitLiteral /\ [][LiteralNext]_vars

\* A selector is visited under every combination of the flags, as an
\* enclosing visit or the constructor leaves them; an assignment or a payment
\* is visited as a statement, with m_lval unset; so is a method call, a
\* contract creation, a call of another kind, a unary operation or a tuple,
\* with both flags unset.
InitExpr ==
    /\ MapIdle
    /\ HarnessIdle
    /\ InterferenceIdle
    /\ TaintIdle
    /\ ScopeIdle
    /\ BlockIdle
    /\ PrintIdle
    /\ LiteralIdle
    /\ \/ ExprInit(Selectors, BOOLEAN, BOOLEAN)
       \/ ExprInit(Assignments \cup Payments, BOOLEAN, {FALSE})
       \/ ExprInit(InternalCalls \cup ExternalCalls \cup Creations
                       \cup OtherCalls \cup Operations, {FALSE}, {FALSE})

SpecExpr == InitExpr /\ [][ExprNext]_vars

\* Every sample body, payable or not, with the pay managed or not.
InitScope ==
    /\ MapIdle
    /\ HarnessIdle
    /\ InterferenceIdle
    /\ TaintIdle
    /\ BlockIdle
    /\ PrintIdle
    /\ LiteralIdle
    /\ ExprIdle
    /\ ScopeInit(FunctionBodies, BOOLEAN)

SpecScope == InitScope /\ [][ScopeNext]_vars

\* Every body of at most MaxStatements statements, nothing tainted yet.
InitTaint ==
    /\ MapIdle
    /\ HarnessIdle
    /\ InterferenceIdle
    /\ BlockIdle
    /\ PrintIdle
    /\ LiteralIdle
    /\ ExprIdle
    /\ ScopeIdle
    /\ TaintInit(TaintBodies)

SpecTaint == InitTaint /\ [][TaintNext]_vars

\* run is one call: once entered, its passes are carried through, and the
\* caller that marks the sources goes on to call it.
SpecTaintFair == InitTaint /\ [][TaintNext]_vars /\ WF_vars(TaintNext)

\* Every configuration of at most MaxMaps maps, and every iterator.
InitInterference ==
    /\ MapIdle
    /\ HarnessIdle
    /\ BlockIdle
    /\ PrintIdle
    /\ LiteralIdle
    /\ ExprIdle
    /\ ScopeIdle
    /\ TaintIdle
    /\ InterferenceInit(InvariantModes, MapLists, KeyIterators)

SpecInterference == InitInterference /\ [][InterferenceNext]_vars

\* The code that holds an iterator goes on calling next().
SpecInterferenceFair ==
    InitInterference /\ [][InterferenceNext]_vars /\ WF_vars(InterferenceNext)

\* ========================================================================
\* Claims about the map abstraction (checked under SpecMap).
\* ========================================================================

\* C1: for a map created by Init_<M>, the first Read/Write/Ref latches
\* m_curr to the supplied key and sets m_set to 1; afterwards a Read at
\* m_curr returns d_, a Read at another key returns the fresh ND_<V>()
\* value, a Write at m_curr stores the written value in d_, and a Write at
\* another key leaves the whole map unchanged.
C1_MapLatchSemantics ==
    created = "Init" =>
        LET p == call.pre
        IN  /\ (call.op \in {"Read", "Write", "Ref"} /\ p.m_set = 0)
                  => (a.m_curr = call.idx /\ a.m_set = 1)
            /\ (call.op = "Read" /\ p.m_set = 1 /\ call.idx = p.m_curr)
                  => (call.ret = p.d_ /\ call.nd = <<>>)
            /\ (call.op = "Read" /\ p.m_set = 1 /\ call.idx # p.m_curr)
                  => (call.nd # <<>> /\ call.ret = call.nd[1])
            /\ (call.op = "Write" /\ p.m_set = 1 /\ call.idx = p.m_curr)
                  => a.d_ = call.d
            /\ (call.op = "Write" /\ p.m_set = 1 /\ call.idx # p.m_curr)
                  => a = p

\* A Write at a key other than the latched one was dropped although it
\* carried a value different from the stored one.
C1_Witness ==
    /\ created = "Init"
    /\ call.op = "Write"
    /\ call.pre.m_set = 1
    /\ call.idx # call.pre.m_curr
    /\ call.d # a.d_

\* C2 (as stated): a Read at key k immediately after Write(m, k, v)
\* returns v, for every reachable map state, key and value.
C2_ReadAfterWrite ==
    (call.op = "Read" /\ call.after # <<>>) => call.ret = call.after[1]

\* C2 (amended): a Read at key k immediately after Write(m, k, v) returns v
\* whenever k is the latched key m_curr after the write.
C2_ReadAfterWriteAtLatchedKey ==
    (call.op = "Read" /\ call.after # <<>> /\ call.idx = call.pre.m_curr)
        => call.ret = call.after[1]

\* A non-default value was written at the latched key of a map that had
\* been latched before and was read back by the next call.
C2_Witness ==
    /\ call.op = "Read"
    /\ call.after = <<1>>
    /\ call.idx = a.m_curr
    /\ call.ret = 1

\* ========================================================================
\* Claims about the harness (checked under SpecHarness and SpecSwitch).
\* ========================================================================
\* The positions of the emitted run_model once the call-state is declared.
RunPcs ==
    {"setup", "loop", "on_transaction", "reps", "update_global", "next_call",
     "switch", "default", "exit"}

\* The positions inside the body of the transaction loop.
BodyPcs == {"on_transaction", "reps", "update_global", "next_call", "switch"}

IsPrefix(s, t) == Len(s) <= Len(t) /\ SubSeq(t, 1, Len(s)) = s

IterationWithReps ==
    <<"sol_continue=1", "sol_on_transaction", "sol_is_using_reps=1",
      "interference", "update_global", "next_call", "invoke">>

IterationWithoutReps ==
    <<"sol_continue=1", "sol_on_transaction", "sol_is_using_reps=0",
      "update_global", "next_call", "invoke">>

\* The call-state update of the current iteration has run.
HasUpdated == \E i \in 1..Len(steps) : steps[i] = "update_global"

\* The number of (actor, exposed specialization) pairs of the bundle.
ExposedCount ==
    Cardinality({p \in (DOMAIN m_actors) \X (0..BigSpecs + 1) :
                    p[2] \in DOMAIN m_actors[p[1]]})

\* C3: every iteration of the run_model loop runs sol_on_transaction(), then
\* the interference block only if sol_is_using_reps() returned true, then
\* the global call-state update, then the choice of next_call, then exactly
\* one method invocation; an iteration starts only after sol_continue()
\* returned true and the loop ends only when it returned false.
C3_IterationOrder ==
    /\ pc \in BodyPcs =>
          /\ steps # <<>>
          /\ steps[1] = "sol_continue=1"
          /\ invoked = <<>>
    /\ pc \in BodyPcs \cup {"loop"} =>
          \/ IsPrefix(steps, IterationWithReps)
          \/ IsPrefix(steps, IterationWithoutReps)
    /\ (pc = "loop" /\ steps # <<>>) =>
          /\ steps \in {IterationWithReps, IterationWithoutReps}
          /\ Len(invoked) = 1
          /\ invoked[1].actor \in DOMAIN m_actors
          /\ invoked[1].spec \in DOMAIN m_actors[invoked[1].actor]
    /\ pc = "exit" => steps = <<"sol_continue=0">>
    /\ pc # "default"

\* An iteration that ran the interference block has completed with one
\* invocation on the second actor.
C3_Witness ==
    /\ pc = "loop"
    /\ steps = IterationWithReps
    /\ Len(invoked) = 1
    /\ invoked[1].actor = 2

\* C4: the switch has one case per (actor, specialization) pair, labelled
\* densely 0..case_count-1 in actor order then specialization order;
\* next_call holds the index in [0, case_count) that the non-deterministic
\* source returned, so that every case index can be chosen, and the default
\* case is never reached, for any number of cases.
C4_EveryCaseSelectable ==
    /\ pc = "declare" =>
          /\ Len(call_cases) = ExposedCount
          /\ \A i \in DOMAIN call_cases : call_cases[i].label = i - 1
          /\ \A i, j \in DOMAIN call_cases :
                i < j => \/ call_cases[i].actor < call_cases[j].actor
                         \/ /\ call_cases[i].actor = call_cases[j].actor
                            /\ call_cases[i].spec < call_cases[j].spec
    /\ pc = "switch" =>
          /\ next_call \in 0..(Len(call_cases) - 1)
          /\ next_call = nd_next
    /\ pc # "default"

\* C5: blocknum and timestamp never decrease, and in an iteration with
\* lockstep time on and take_step set each grows by exactly 1.
C5Step ==
    pc \in RunPcs =>
        /\ state'.blocknum >= state.blocknum
        /\ state'.timestamp >= state.timestamp
        /\ (pc = "update_global" /\ pc' = "next_call"
            /\ M_USE_LOCKSTEP_TIME /\ take_step' # 0) =>
                /\ state'.blocknum = state.blocknum + 1
                /\ state'.timestamp = state.timestamp + 1

C5_TimeMonotone == [][C5Step]_vars

\* Under lockstep time an update with take_step set has advanced both.
C5_Witness ==
    /\ pc = "next_call"
    /\ M_USE_LOCKSTEP_TIME
    /\ take_step = 1
    /\ stepped.blocknum /\ stepped.timestamp
    /\ state.blocknum = MaxTime
    /\ state.timestamp = 1

\* C6: with lockstep time, blocknum and timestamp change only in an update
\* whose single take_step draw is non-zero, and then both advance; without
\* it, both are 0 at declaration, take_step is never declared and both
\* advance statements run in every iteration.
C6Step ==
    IF M_USE_LOCKSTEP_TIME
    THEN pc \in RunPcs =>
            /\ (state'.blocknum # state.blocknum
                \/ state'.timestamp # state.timestamp) =>
                    (pc = "update_global" /\ take_step' # 0)
            /\ (state'.blocknum # state.blocknum)
                  <=> (state'.timestamp # state.timestamp)
            /\ (pc = "update_global" /\ pc' = "next_call") =>
                    /\ take_step' \in {0, 1}
                    /\ stepped'.blocknum = (take_step' # 0)
                    /\ stepped'.timestamp = (take_step' # 0)
                    /\ take_step' # 0 => state'.blocknum # state.blocknum
    ELSE /\ take_step' = NotDeclared
         /\ (pc = "declare" /\ pc' = "setup") =>
                (state'.blocknum = 0 /\ state'.timestamp = 0)
         /\ (pc = "update_global" /\ pc' = "next_call") =>
                (stepped'.blocknum /\ stepped'.timestamp)

C6_LockstepGating == [][C6Step]_vars

\* Under lockstep time an iteration completed whose update drew
\* take_step = 0 and ran neither advance statement.
C6_Witness ==
    /\ pc = "loop"
    /\ M_USE_LOCKSTEP_TIME
    /\ take_step = 0
    /\ HasUpdated
    /\ ~stepped.blocknum /\ ~stepped.timestamp

\* C7: the sender chosen by the call-state update lies in
\* [contract_count (+1 if the literal 0 is used), size): it is never 0 and
\* never the address of a deployed contract.
C7_SenderIsClient ==
    HasUpdated =>
        /\ Len(m_actors) >= 1
        /\ state.sender >= m_addrdata.contract_count
                            + (IF m_addrdata.literal0 THEN 1 ELSE 0)
        /\ state.sender < m_addrdata.size
        /\ state.sender # 0
        /\ state.sender \notin ContractAddresses

\* With the literal 0 in use, the update chose the first client address.
C7_Witness ==
    /\ pc = "next_call"
    /\ HasUpdated
    /\ m_addrdata.literal0
    /\ state.sender = m_addrdata.contract_count + 1

\* C8: the call-state update resets value to 0 and only pay(), which runs
\* for payable methods only, makes it non-deterministic afterwards; a
\* non-payable method is invoked with value = 0.
C8_ValueZeroUnlessPayable ==
    /\ (pc \in {"next_call", "switch"} /\ HasUpdated) => state.value = 0
    /\ \A i \in DOMAIN invoked :
          /\ ~invoked[i].payable => invoked[i].value = 0
          /\ invoked[i].value # 0 => invoked[i].payable
          /\ invoked[i].payable = m_actors[invoked[i].actor][invoked[i].spec]

\* A non-payable method that is not the first case was invoked.
C8_Witness ==
    /\ pc = "loop"
    /\ Len(invoked) = 1
    /\ ~invoked[1].payable
    /\ invoked[1].label > 0
    /\ invoked[1].value = 0

\* C9: paid is 1 from its declaration on and at every invocation, and no
\* step of the loop, the call-state update included, writes paid or origin.
C9Step ==
    /\ (pc = "declare" /\ pc' = "setup") => state'.paid = 1
    /\ pc \in RunPcs =>
          /\ state'.paid = state.paid
          /\ state'.origin = state.origin
    /\ \A i \in DOMAIN invoked' : invoked'[i].paid = 1

C9_PaidAndOriginFrame == [][C9Step]_vars

\* A payable method was invoked with paid = 1 and a non-zero value.
C9_Witness ==
    /\ pc = "loop"
    /\ Len(invoked) = 1
    /\ invoked[1].paid = 1
    /\ invoked[1].value = 1
    /\ state.paid = 1
    /\ state.origin = Indeterminate

\* C10: with no exposed function print_main fails before anything is
\* written to the stream; otherwise it writes exactly one run_model.
C10_FatalWritesNothing ==
    /\ pc = "fatal" => (ExposedCount = 0 /\ stream = <<>>)
    /\ (pc # "print_main" /\ ExposedCount = 0) => pc = "fatal"
    /\ (pc # "print_main" /\ ExposedCount >= 1) => stream = <<"run_model">>

\* print_main failed for a bundle whose only actor exposes nothing.
C10_Witness ==
    /\ pc = "fatal"
    /\ Len(m_actors) = 1
    /\ stream = <<>>

\* ========================================================================
\* Claims about the modifier chain (checked under SpecBlock).
\* ========================================================================
\* The modifiers of m_func in declaration order, parent-constructor
\* invocations not counted.
DeclaredModifiers == SelectSeq(m_func.invocations, LAMBDA m : m.ctor = FALSE)

Placeholders(src) == Cardinality({k \in 1..Len(src) : src[k] = "_"})

CallsIn(body) ==
    SelectSeq(body, LAMBDA st : st.op \in {"call", "assign_call"})

ChainNames ==
    <<FuncName>>
        \o [i \in 1..Len(DeclaredModifiers) |-> ModName(i - 1)]
        \o <<BaseName>>

FrameNames == [k \in 1..Len(m_frames) |-> m_frames[k].fn]

\* C11: with n >= 1 modifiers the exported method calls _mod0, every
\* placeholder of modifier i is one call to modifier i+1 and every
\* placeholder of the last modifier one call to _base; hence the call stack
\* is always a prefix of Method, _mod0, ..., _mod<n-1>, _base (the base body
\* is entered only below all n modifiers, in declaration order) and an
\* activation of a modifier with k placeholders issues at most k calls.
C11_ModifierChain ==
    LET mods == DeclaredModifiers
        n == Len(mods)
    IN  (bpc # "convert" /\ n >= 1) =>
          /\ LET calls == CallsIn(BodyOf(FuncName))
             IN  Len(calls) = 1 /\ calls[1].callee = ModName(0)
          /\ \A i \in 0..(n - 1) :
                LET calls == CallsIn(BodyOf(ModName(i)))
                IN  /\ Len(calls) = Placeholders(mods[i + 1].body)
                    /\ \A k \in 1..Len(calls) :
                          calls[k].callee =
                              IF i = n - 1 THEN BaseName ELSE ModName(i + 1)
          /\ IsPrefix(FrameNames, ChainNames)
          /\ \A k \in 2..Len(m_frames) :
                k <= n + 1 =>
                    m_frames[k].calls <= Placeholders(mods[k - 1].body)

\* The base body runs below two modifiers, during the second placeholder
\* of the first one.
C11_Witness ==
    /\ bpc = "run"
    /\ Len(DeclaredModifiers) = 2
    /\ FrameNames = ChainNames
    /\ m_frames[2].calls = 2

NamedCount(name) ==
    Cardinality({k \in 1..Len(m_output) : m_output[k].name = name})

WrapperCount ==
    Cardinality({k \in 1..Len(m_output) :
        \E i \in 0..MaxInvocations : m_output[k].name = ModName(i)})

ChainFunctions(n) ==
    /\ NamedCount(FuncName) = 1
    /\ WrapperCount = n
    /\ NamedCount(BaseName) = 1
    /\ Len(m_output) = n + 2

\* C12 as stated: for a modifier chain of length n (parent-constructor
\* invocations not counted) the output holds exactly one Method_C_Funcf,
\* n wrappers and one _base function, n + 2 functions in total.
C12_ChainFunctionCount ==
    bpc # "convert" => ChainFunctions(Len(DeclaredModifiers))

\* C12 as amended: the count n + 2 holds for n >= 1; a function without
\* modifiers is emitted as the single function Method_C_Funcf, which is the
\* base body itself.
C12_ChainFunctionCountWithModifiers ==
    LET n == Len(DeclaredModifiers)
    IN  bpc # "convert" =>
          IF n >= 1 THEN ChainFunctions(n)
          ELSE /\ Len(m_output) = 1
               /\ m_output[1] = [name |-> FuncName, body |-> BaseBody]

\* A constructor with two modifiers and one parent-constructor invocation
\* was converted into four functions.
C12_Witness ==
    /\ bpc # "convert"
    /\ \E k \in 1..Len(m_func.invocations) : m_func.invocations[k].ctor
    /\ Len(DeclaredModifiers) = 2
    /\ Len(m_output) = 4

\* Index of the first Return of a modifier body (one past the end without).
FirstReturn(src) ==
    LET rets == {k \in 1..Len(src) : src[k] = "return"}
    IN  IF rets = {} THEN Len(src) + 1
        ELSE CHOOSE k \in rets : \A j \in rets : k <= j

\* C13: in a function with a return value every placeholder of a modifier
\* is an assignment of the next-in-chain call to the holder and every
\* return returns the holder; an activation therefore issues exactly the
\* calls of the placeholders before its first return (none when the return
\* comes first, and never one after it) and returns the result of the last
\* call it made.
C13_ModifierReturn ==
    LET mods == DeclaredModifiers
        n == Len(mods)
    IN  (bpc # "convert" /\ m_func.rv) =>
          \A i \in 0..(n - 1) :
            LET src == mods[i + 1].body
                low == BodyOf(ModName(i))
                first == FirstReturn(src)
            IN  /\ \A k \in 1..Len(src) :
                      /\ src[k] = "_" => low[k + 1].op = "assign_call"
                      /\ src[k] = "return" => low[k + 1].op = "return_rv"
                /\ m_returned.fn = ModName(i) =>
                      /\ m_returned.calls =
                            Placeholders(SubSeq(src, 1, first - 1))
                      /\ m_returned.ip = first + 1
                      /\ m_returned.calls > 0 =>
                            m_returned.value = m_returned.last

\* The modifier "_; return; _;" of a function with a return value returned
\* the result of its first placeholder; the second one never ran.
C13_Witness ==
    /\ m_func.rv
    /\ Len(DeclaredModifiers) = 1
    /\ DeclaredModifiers[1].body = <<"_", "return", "_">>
    /\ m_returned.fn = ModName(0)
    /\ m_returned.calls = 1
    /\ m_returned.value = 1
    /\ m_returned.last = 1

\* ========================================================================
\* Claims about the printers (checked under SpecPrint).
\* ========================================================================
\* C14: two applications of a printer to the same AST give byte-identical
\* output, with a fresh printer object for the second run as well as with
\* a second print() on the same object.
C14_Reproducible ==
    \A r1, r2 \in 1..Len(p_runs) : p_runs[r1].out = p_runs[r2].out

Letters ==
    {"a", "b", "c", "d", "e", "f", "g", "h", "i", "j", "k", "l", "m",
     "n", "o", "p", "q", "r", "s", "t", "u", "v", "w", "x", "y", "z",
     "A", "B", "C", "D", "E", "F", "G", "H", "I", "J", "K", "L", "M",
     "N", "O", "P", "Q", "R", "S", "T", "U", "V", "W", "X", "Y", "Z"}

Digits == {DigitChars[k] : k \in 1..Len(DigitChars)}

\* [A-Za-z_][A-Za-z0-9_]*
IsIdentifier(s) ==
    /\ Len(s) >= 1
    /\ s[1] \in Letters \cup {"_"}
    /\ \A k \in 2..Len(s) : s[k] \in Letters \cup Digits \cup {"_"}

\* C15: every identifier emitted into the target source matches
\* [A-Za-z_][A-Za-z0-9_]*: the argument variables of the main-function
\* printer, the harness names arg_<name>, placeholder_<k>, rv_<i> and the
\* map cells data_<i>_<j>...
C15_IdentifiersWellFormed == \A id \in emitted : IsIdentifier(id)

\* ========================================================================
\* Claims about number literals (checked under SpecLiteral).
\* ========================================================================
\* The literal's value n, read off its decimal digits.
RECURSIVE DecimalValue(_, _)
DecimalValue(chars, acc) ==
    IF chars = <<>> THEN acc
    ELSE DecimalValue(Tail(chars),
            10 * acc + (CHOOSE k \in 0..9 : DigitChars[k + 1] = Head(chars)))

Multiplier(sub) ==
    CASE sub = "Szabo"  -> BigMul(BigOf(1000000), BigOf(1000000))
      [] sub = "Finney" -> BigMul(BigOf(1000000000), BigOf(1000000))
      [] sub = "Ether"  -> BigMul(BigOf(1000000000), BigOf(1000000000))
      [] sub = "Minute" -> BigOf(60)
      [] sub = "Hour"   -> BigOf(3600)
      [] sub = "Day"    -> BigOf(86400)
      [] sub = "Week"   -> BigOf(604800)
      [] sub = "Year"   -> BigOf(31536000)
      [] OTHER          -> BigOf(1)

\* C16: the integer emitted for a number literal of value n and
\* sub-denomination d is the mathematical product n * multiplier(d).
C16_LiteralProduct ==
    lpc = "done" =>
        /\ ~l_num.trap
        /\ ~l_num.neg
        /\ l_num.mag = BigMul(BigOf(DecimalValue(l_node.value, 0)),
                              Multiplier(l_node.sub))

\* ========================================================================
\* Claims about the expression converter (checked under SpecExpr).
\* ========================================================================
Converted(kind) == epc = "done" /\ e_node.node = kind

\* &((self)->model_balance): the balance of the calling contract.
OwnBalance ==
    [c |-> "CReference",
     e |-> [c |-> "CMemberAccess",
            e |-> [c |-> "CIdentifier", name |-> "self", ptr |-> TRUE],
            field |-> "model_balance"]]

\* The payment function the kind of the call asks for.
ExpectedPayment(fcall) ==
    IF fcall.expression.type.name = "transfer" THEN "_pay" ELSE "_pay_use_rv"

\* A call written dst.transfer(..), dst.send(..) or (dst.send)(..).
OnAddress(fcall) ==
    /\ fcall.expression.type.name \in PaymentKinds
    /\ \/ fcall.expression.node = "MemberAccess"
       \/ /\ fcall.expression.node = "TupleExpression"
          /\ fcall.expression.components[1].node = "MemberAccess"

\* C17: a transfer call lowers to _pay(&self.balance, dst, amount) and a
\* send call, also when written (dst.send)(x), lowers to
\* _pay_use_rv(&self.balance, dst, amount); the source balance is the
\* calling contract's own balance, and a call without exactly one amount
\* argument is a fatal error.
C17_PaymentLowering ==
    (Converted("FunctionCall") /\ OnAddress(e_node)) =>
        IF Len(e_node.arguments) # 1
        THEN Thrown(m_subexpr)
        ELSE /\ m_subexpr.c = "CFuncCall"
             /\ m_subexpr.op = ExpectedPayment(e_node)
             /\ m_subexpr.id = ""
             /\ Len(m_subexpr.args) = 3
             /\ m_subexpr.args[1] = OwnBalance
             /\ m_subexpr.args[2].c = "CFuncCall"
             /\ m_subexpr.args[2].op = "Init"
             /\ m_subexpr.args[2].id = "sol_address_t"
             /\ m_subexpr.args[3].c = "CFuncCall"
             /\ m_subexpr.args[3].op = "Init"
             /\ m_subexpr.args[3].id = "sol_uint256_t"

EndsWithV(e) == e.c = "CMemberAccess" /\ e.field = "v"

\* An identifier, member access or map index access of a wrapped type.
WrappedSelector(n) ==
    /\ n.node \in {"Identifier", "MemberAccess", "IndexAccess"}
    /\ n.type.cat \in {"Integer", "Address", "Enum"}

EnumMember(n) == n.node = "MemberAccess" /\ n.expression.type.cat = "TypeType"

\* An assignment lowered to lhs = rhs, its left-hand side a wrapped selector.
AssignedSelector ==
    /\ Converted("Assignment")
    /\ WrappedSelector(e_node.leftHandSide)
    /\ m_subexpr.c = "CBinaryOp"
    /\ m_subexpr.op = "="

ExpectedValue(n) ==
    CASE n.node = "Literal" -> [c |-> "CIntLiteral", val |-> n.value]
      [] n.node = "Identifier" ->
           [c |-> "CMemberAccess",
            e |-> [c |-> "CIdentifier", name |-> n.name, ptr |-> FALSE],
            field |-> "v"]
      [] n.node = "IndexAccess" ->
           [c |-> "CMemberAccess",
            e |-> [c |-> "CFuncCall", op |-> "Read", id |-> "Map_2",
                   args |-> <<[c |-> "CReference",
                               e |-> [c |-> "CIdentifier",
                                      name |-> "self->user_a", ptr |-> FALSE]],
                              [c |-> "CFuncCall", op |-> "Init",
                               id |-> "sol_int256_t",
                               args |-> <<[c |-> "CIntLiteral", val |-> 1]>>]>>],
            field |-> "v"]

ExpectedInit(e) ==
    [c |-> "CFuncCall", op |-> "Init", id |-> "sol_int256_t", args |-> <<e>>]

ExpectedKey(k) == ExpectedInit(ExpectedValue(k))

AddressOf(id) ==
    [c |-> "CReference",
     e |-> [c |-> "CIdentifier", name |-> id.name, ptr |-> FALSE]]

\* The reference to the map indexed: a state variable, a member of a struct
\* or an entry of an enclosing map.
ExpectedBase(b) ==
    CASE b.node = "Identifier" -> AddressOf(b)
      [] b.node = "MemberAccess" ->
           [c |-> "CReference",
            e |-> [c |-> "CMemberAccess",
                   e |-> [c |-> "CIdentifier", name |-> b.expression.name,
                          ptr |-> FALSE],
                   field |-> "user_" \o b.memberName]]
      [] b.node = "IndexAccess" ->
           [c |-> "CFuncCall", op |-> "Ref",
            id |-> b.baseExpression.type.name,
            args |-> <<AddressOf(b.baseExpression),
                       ExpectedKey(b.indexExpression)>>]

ExpectedMapCall(op, map, rest) ==
    [c |-> "CFuncCall", op |-> op, id |-> map.baseExpression.type.name,
     args |-> <<ExpectedBase(map.baseExpression),
                ExpectedKey(map.indexExpression)>> \o rest]

\* The number of calls of the map helper op in a target expression, and of
\* dereferences.
RECURSIVE CallsOf(_, _)
CallsOf(op, e) ==
    CASE e.c \in {"CIdentifier", "CIntLiteral"} -> 0
      [] e.c \in {"CReference", "CDereference", "CMemberAccess"} ->
           CallsOf(op, e.e)
      [] e.c = "CBinaryOp" -> CallsOf(op, e.l) + CallsOf(op, e.r)
      [] e.c = "CFuncCall" ->
           (IF e.op = op THEN 1 ELSE 0)
             + (IF Len(e.args) >= 1 THEN CallsOf(op, e.args[1]) ELSE 0)
             + (IF Len(e.args) >= 2 THEN CallsOf(op, e.args[2]) ELSE 0)
             + (IF Len(e.args) >= 3 THEN CallsOf(op, e.args[3]) ELSE 0)

RECURSIVE Dereferences(_)
Dereferences(e) ==
    CASE e.c \in {"CIdentifier", "CIntLiteral"} -> 0
      [] e.c = "CDereference" -> 1 + Dereferences(e.e)
      [] e.c \in {"CReference", "CMemberAccess"} -> Dereferences(e.e)
      [] e.c = "CBinaryOp" -> Dereferences(e.l) + Dereferences(e.r)
      [] e.c = "CFuncCall" ->
           (IF Len(e.args) >= 1 THEN Dereferences(e.args[1]) ELSE 0)
             + (IF Len(e.args) >= 2 THEN Dereferences(e.args[2]) ELSE 0)
             + (IF Len(e.args) >= 3 THEN Dereferences(e.args[3]) ELSE 0)

\* The map index access that is the whole left-hand side, if it is one.
WholeLeftHandSide(n) ==
    IF n.leftHandSide.node = "TupleExpression"
    THEN n.leftHandSide.components[1]
    ELSE n.leftHandSide

\* A statement-level assignment to a map index with a supported operator.
MapAssigned ==
    /\ Converted("Assignment")
    /\ ~m_lval
    /\ WholeLeftHandSide(e_node).node = "IndexAccess"
    /\ e_node.assignmentOperator \in {"=", "+="}

Unwrapped(n, e) ==
    IF n.type.cat \in {"Integer", "Address", "Enum"} /\ EndsWithV(e)
    THEN e.e
    ELSE e

\* A statement-level assignment to a member of a struct held in a map,
\* b[k].m op= e, with a supported operator.
EntryMemberAssigned ==
    /\ Converted("Assignment")
    /\ ~m_lval /\ ~m_find_ref
    /\ e_node.leftHandSide.node = "MemberAccess"
    /\ e_node.leftHandSide.expression.node = "IndexAccess"
    /\ e_node.assignmentOperator \in {"=", "+="}

MemberOf(e, memberName) ==
    [c |-> "CMemberAccess",
     e |-> [c |-> "CMemberAccess", e |-> e, field |-> "user_" \o memberName],
     field |-> "v"]

C21_ScopesRestored ==
    /\ s_closed.closed =>
          /\ Len(s_closed.after) = Len(s_closed.before)
          /\ \A n \in LocalNames :
                resolve_identifier(s_closed.after, n)
                  = resolve_identifier(s_closed.before, n)
    /\ spc \in {"converted", "fatal"} => s_scopes = <<>>

\* A statement that declared a local a was left and the use of a after it
\* was lowered to the state variable again.
C21_Witness ==
    /\ spc = "converted"
    /\ s_closed.closed
    /\ s_closed.declared = "a"
    /\ s_block[Len(s_block)] = [stmt |-> "expr", name |-> "self->user_a"]

ValueHandler ==
    [stmt |-> "if(((paid).v)==(1))(((self)->model_balance).v)+=((value).v);",
     name |-> ""]

\* C22: the lowered body of a payable function whose pay the block
\* converter manages starts with the statement that adds value to the
\* balance of self exactly when paid is 1; a non-payable body holds no such
\* statement; entering a payable function with paid = 0 leaves the balance
\* unchanged.
C22_ValueHandler ==
    /\ spc \in {"converted", "done"} =>
          /\ (s_func.manage_pay /\ s_func.is_payable) =>
                /\ s_block # <<>>
                /\ s_block[1] = ValueHandler
                /\ \A k \in 2..Len(s_block) : s_block[k] # ValueHandler
          /\ ~s_func.is_payable =>
                \A k \in 1..Len(s_block) : s_block[k] # ValueHandler
    /\ s_call.entered =>
          /\ s_call.paid = 0 => s_call.after = s_call.balance
          /\ ~s_func.is_payable => s_call.after = s_call.balance
          /\ (s_func.manage_pay /\ s_func.is_payable /\ s_call.paid = 1) =>
                s_call.after = s_call.balance + s_call.value

\* A payable body was entered with paid = 0 and a value, and with paid = 1.
C22_Witness ==
    /\ s_call.entered
    /\ s_func.manage_pay /\ s_func.is_payable
    /\ s_call.paid = 0
    /\ s_call.value = 1
    /\ s_call.after = s_call.balance

\* ---- C23 ----
\* The call a converted call or contract creation in the samples lowered to,
\* under the .v of a wrapped return value.
LoweredCall ==
    IF m_subexpr.c = "CMemberAccess" /\ m_subexpr.field = "v"
    THEN m_subexpr.e ELSE m_subexpr

\* The call expression converted: the node itself, or the right-hand side of
\* the assignment that creates a contract.
NestedCall ==
    IF e_node.node # "Assignment" THEN e_node
    ELSE IF e_node.rightHandSide.node = "TupleExpression"
         THEN e_node.rightHandSide.components[1]
         ELSE e_node.rightHandSide

\* The contract variable the call goes to: the one the method is called on,
\* or the one the created contract is assigned to.
TargetOf(fcall) ==
    IF e_node.node = "Assignment" THEN e_node.leftHandSide
    ELSE LET callee == IF fcall.expression.node = "FunctionCall"
                       THEN fcall.expression.expression.expression
                       ELSE fcall.expression
         IN  IF callee.node = "TupleExpression"
             THEN callee.components[1].expression
             ELSE callee.expression

PointerTo(target) ==
    IF target.pointer THEN CIdentifier(target.name, TRUE)
    ELSE CReference(CIdentifier(target.name, FALSE))

\* The value argument of an external call: the amount set with .value(..),
\* or else zero.
SuppliedValue(fcall) ==
    CFuncCall("Init", "sol_uint256_t",
              <<IF fcall.expression.node = "FunctionCall"
                THEN visit(fcall.expression.arguments[1], FALSE, FALSE)
                ELSE CIntLiteral(0)>>)

\* C23: a nested call passes the call state on as follows. An internal call
\* passes self and the caller's sender and value unchanged, with paid = 0. An
\* external call or a contract creation passes a pointer to the target, the
\* calling contract's own address as sender, the explicitly supplied value
\* or else 0 as value, and paid = 1. blocknum, timestamp and origin are
\* passed unchanged in every case.
C23_NextCallState ==
    (epc = "done" /\ e_node \in InternalCalls \cup ExternalCalls \cup Creations) =>
        LET args == LoweredCall.args
        IN  /\ LoweredCall.c = "CFuncCall"
            /\ Len(args) >= 7
            /\ args[4] = CIdentifier("blocknum", FALSE)
            /\ args[5] = CIdentifier("timestamp", FALSE)
            /\ args[7] = CIdentifier("origin", FALSE)
            /\ IF e_node \in InternalCalls
               THEN /\ args[1] = CIdentifier("self", TRUE)
                    /\ args[2] = CIdentifier("sender", FALSE)
                    /\ args[3] = CIdentifier("value", FALSE)
                    /\ args[6] = InitBool(0)
               ELSE /\ args[1] = PointerTo(TargetOf(NestedCall))
                    /\ args[2] = CMemberAccess(CIdentifier("self", TRUE),
                                               "model_address")
                    /\ args[3] = SuppliedValue(NestedCall)
                    /\ args[6] = InitBool(1)

\* a.f() was lowered without a value set: the value passed is zero.
C23_Witness ==
    /\ epc = "done"
    /\ e_node = FunctionCall(
                  MemberAccess(ctx_a, "f",
                               MethodType("External", "A_Funcf", <<>>, <<>>)),
                  <<>>)
    /\ m_subexpr.c = "CFuncCall"
    /\ m_subexpr.op = "Method"
    /\ m_subexpr.args[3] = CFuncCall("Init", "sol_uint256_t", <<CIntLiteral(0)>>)

\* ---- C24 ----
\* The unsupported construct a node of the samples is, or "" when the node is
\* supported.
ConstructOf(n) ==
    CASE n.node = "UnaryOperation" /\ n.op = "delete" -> "delete"
      [] n.node = "TupleExpression" /\ n.isInlineArray -> "inline array"
      [] n.node = "TupleExpression" /\ ~n.isInlineArray
                                    /\ Len(n.components) > 1 -> "multi-value tuple"
      [] n.node = "FunctionCall" /\ n.expression.type.cat = "Function" ->
            LET kind == n.expression.type.name
            IN  CASE kind \in {"DelegateCall", "BareDelegateCall", "BareCallCode"} ->
                       "delegate call"
                  [] kind = "KECCAK256" -> "keccak256"
                  [] kind = "SHA256" -> "sha256"
                  [] kind = "RIPEMD160" -> "ripemd160"
                  [] kind = "ECRecover" -> "ecrecover"
                  [] kind \in {"Log0", "Log1", "Log2", "Log3", "Log4", "Event"} ->
                       "logging"
                  [] kind = "SetGas" -> "gas setter"
                  [] kind = "SetValue" -> "value setter"
                  [] kind = "BlockHash" -> "blockhash"
                  [] kind = "AddMod" -> "addmod"
                  [] kind = "MulMod" -> "mulmod"
                  [] kind \in {"ArrayPush", "ByteArrayPush"} -> "array push"
                  [] kind = "ArrayPop" -> "array pop"
                  [] kind = "ObjectCreation" -> "new array"
                  [] kind \in {"ABIEncode", "ABIEncodePacked",
                               "ABIEncodeWithSelector",
                               "ABIEncodeWithSignature"} -> "abi encode"
                  [] kind = "ABIDecode" -> "abi decode"
                  [] kind = "Selfdestruct" -> "selfdestruct"
                  [] kind = "Revert" -> "revert"
                  [] kind = "GasLeft" -> "gasleft"
                  [] OTHER -> ""
      [] OTHER -> ""

\* The construct an error message names.
NamedBy(msg) ==
    CASE msg = "Delete not yet supported." -> "delete"
      [] msg = "Inline arrays not yet supported." -> "inline array"
      [] msg = "Multivalue tuples not yet supported." -> "multi-value tuple"
      [] msg = "Delegate calls are unsupported." -> "delegate call"
      [] msg = "KECCAK256 not yet supported." -> "keccak256"
      [] msg = "SHA256 not yet supported." -> "sha256"
      [] msg = "RIPEMD160 not yet supported." -> "ripemd160"
      [] msg = "ECRecover not yet supported." -> "ecrecover"
      [] msg = "Logging is not verified." -> "logging"
      [] msg = "'gas(<val>)' not yet supported." -> "gas setter"
      [] msg = "'value(<val>)' not yet supported." -> "value setter"
      [] msg = "'block.blockhash(<val>)' not yet supported." -> "blockhash"
      [] msg = "AddMod not yet supported." -> "addmod"
      [] msg = "MulMod not yet supported." -> "mulmod"
      [] msg = "'<array>.push(<val>)' not yet supported." -> "array push"
      [] msg = "'<array>.pop()' not yet supported." -> "array pop"
      [] msg = "'new <array>' not yet supported." -> "new array"
      [] msg \in {"'abi.encode(...)' unsupported.",
                  "'abi.encodePacked(...)' unsupported.",
                  "'abi.encodeWithSelector(...)' unsupported.",
                  "'abi.encodeWithSignature(...)' unsupported."} -> "abi encode"
      [] msg = "'abi.decode(...)' unsupported." -> "abi decode"
      [] msg = "Selfdestruct unsupported." -> "selfdestruct"
      [] msg = "Revert not yet supported." -> "revert"
      [] msg = "GasLeft not yet supported." -> "gasleft"
      [] OTHER -> ""

\* C24: every unsupported construct (delete, delegate calls, keccak256,
\* sha256, ripemd160, ecrecover, logging, gas and value setters, blockhash,
\* addmod, mulmod, array push and pop, new array, ABI encode and decode,
\* selfdestruct, revert, gasleft, inline arrays, multi-value tuples) stops the
\* conversion with an error whose message names that construct, and no target
\* expression is produced for it.
C24_UnsupportedNamed ==
    (epc = "done" /\ ConstructOf(e_node) # "") =>
        /\ Thrown(m_subexpr)
        /\ NamedBy(m_subexpr.msg) = ConstructOf(e_node)

\* ========================================================================
\* Claims about the taint analysis (checked under SpecTaint, SpecTaintFair).
\* ========================================================================
\* ---- C25 ----
\* C25: the taint state is monotone. No step of taint(v, i) or of run clears
\* a bit of any variable, so every bit set before the run, and every bit set
\* during it, is still set in the taint_for(v) read afterwards.
C25_Monotone ==
    /\ [][\A v \in Declarations :
            taint_for(m_taint, v) \subseteq taint_for(m_taint', v)]_vars
    /\ [](apc \in {"pass", "done"} =>
            \A v \in Declarations :
                taint_for(a_marked, v) \subseteq taint_for(m_taint, v))

\* x = y; x = z was analysed with bit 1 marked on y: x and y hold it, also
\* after the visit of x = z, where z holds no bit.
C25_Witness ==
    /\ apc = "done"
    /\ a_body = <<[dest |-> "x", expr |-> <<"y">>],
                  [dest |-> "x", expr |-> <<"z">>]>>
    /\ taint_for(a_marked, "y") = {1}
    /\ taint_for(m_taint, "y") = {1}
    /\ taint_for(m_taint, "x") = {1}

\* ---- C26 ----
\* One full pass over the body.
RECURSIVE FullPass(_, _)
FullPass(body, db) ==
    IF body = <<>> THEN db
    ELSE FullPass(Tail(body), VisitTaintStatement(db, Head(body)))

\* C26: run terminates. It repeats full passes over the function until one
\* pass changes no bit, which takes at most (variables x sources) + 1
\* passes, and the state it ends in is a fixed point: one more pass would
\* change nothing.
C26_Terminates ==
    /\ [](a_passes <= Cardinality(Declarations) * MaxSources + 1)
    /\ [](apc = "done" =>
            /\ ~m_changed
            /\ ~BitsChanged(m_taint, FullPass(a_body, m_taint)))
    /\ <>(apc = "done")

\* x = y; y = z with z tainted: the third pass is the one that changes no bit.
C26_Witness ==
    /\ apc = "done"
    /\ a_passes = 3
    /\ a_body = <<[dest |-> "x", expr |-> <<"y">>],
                  [dest |-> "y", expr |-> <<"z">>]>>
    /\ taint_for(m_taint, "x") = {0}

\* ---- C27 ----
\* The database run ends with on the body, from the database given.
RECURSIVE Analysis(_, _)
Analysis(body, db) ==
    LET after == FullPass(body, db)
    IN  IF BitsChanged(db, after) THEN Analysis(body, after) ELSE after

\* The statements of the body in the order p.
Reordered(body, p) == [i \in DOMAIN body |-> body[p[i]]]

\* C27: after run(f), for every assignment or initialised declaration x = e
\* of f, taint_for(x) includes taint_for(y) for every variable y referenced
\* in e, and every source bit when e contains a function call; the result
\* does not depend on the order of the statements.
C27_Propagated ==
    apc = "done" =>
        /\ \A i \in DOMAIN a_body :
              LET s == a_body[i]
              IN  \A k \in DOMAIN s.expr :
                     IF s.expr[k] = "call"
                     THEN Sources \subseteq taint_for(m_taint, s.dest)
                     ELSE taint_for(m_taint, s.expr[k])
                             \subseteq taint_for(m_taint, s.dest)
        /\ \A p \in Permutations(DOMAIN a_body) :
              ~BitsChanged(m_taint, Analysis(Reordered(a_body, p), a_marked))

\* x = y; y = f() with bit 0 marked on z: both x and y hold every bit, x
\* from the second pass on.
C27_Witness ==
    /\ apc = "done"
    /\ a_body = <<[dest |-> "x", expr |-> <<"y">>],
                  [dest |-> "y", expr |-> <<"call">>]>>
    /\ taint_for(a_marked, "z") = {0}
    /\ taint_for(m_taint, "x") = Sources
    /\ taint_for(m_taint, "y") = Sources
    /\ a_passes = 3

\* ========================================================================
\* Claims about the interference block and KeyIterator (checked under
\* SpecInterference, SpecInterferenceFair).
\* ========================================================================
\* ---- C28 ----
\* The index tuples of [lo, hi]^depth in lexicographic order.
RECURSIVE LexTuples(_, _, _)
RECURSIVE Prefixed(_, _, _)
Prefixed(i, hi, tails) ==
    IF i > hi THEN <<>>
    ELSE [k \in 1..Len(tails) |-> <<i>> \o tails[k]] \o Prefixed(i + 1, hi, tails)
LexTuples(lo, hi, depth) ==
    IF depth = 0 THEN << <<>> >>
    ELSE Prefixed(lo, hi, LexTuples(lo, hi, depth - 1))

\* data_<i1>_..._<iDEPTH>
CellName(tuple) == <<"d", "a", "t", "a">> \o suffix(tuple)

\* The block the claim describes for the maps from position k on.
RECURSIVE ExpectedBlock(_, _, _)
ExpectedBlock(maps, lo, hi) ==
    IF maps = <<>> THEN <<>>
    ELSE LET map == Head(maps)
             tuples == LexTuples(lo, hi, map.depth)
             cells == [k \in 1..(2 * Len(tuples)) |->
                         IF k % 2 = 1
                         THEN [stmt |-> "assign", path |-> map.id,
                               field |-> CellName(tuples[(k + 1) \div 2])]
                         ELSE [stmt |-> "require", inv |-> map.id,
                               path |-> map.id,
                               field |-> CellName(tuples[k \div 2])]]
         IN  cells \o ExpectedBlock(Tail(maps), lo, hi)

C29_InvariantsDefined ==
    ipc = "done" =>
        /\ \A k \in DOMAIN i_block :
              i_block[k].stmt = "require" =>
                  \E d \in DOMAIN i_defs : i_defs[d] = i_block[k].inv
        /\ i_mode = "none" =>
              /\ i_defs = <<>>
              /\ \A k \in DOMAIN i_block : i_block[k].stmt # "require"

\* ---- C30 ----
\* The number of index lists an iterator goes through before it is empty
\* again: the non-empty prefixes of the tuples.
RECURSIVE Lists(_, _)
Lists(n, depth) == IF depth = 0 THEN 0 ELSE n * (1 + Lists(n, depth - 1))

Degenerate(it) ==
    it.M_WIDTH = 0 \/ it.M_DEPTH = 0 \/ it.M_WIDTH <= it.M_WIDTH_OFFSET

\* C30: starting from a fresh KeyIterator(width, depth, offset), repeated
\* calls of next() return false after finitely many calls (on the first call
\* if width = 0, depth = 0 or width <= offset); after every call that
\* returns true the index list has between 1 and depth entries, each in
\* [offset, width); when next() returns false the list is empty, and a
\* further call of next() restarts the enumeration from the first tuple.
C30_IteratorEnds ==
    /\ [](ipc = "iterate" =>
            LET fresh == KeyIterator(i_iter.M_WIDTH, i_iter.M_DEPTH,
                                     i_iter.M_WIDTH_OFFSET)
            IN  /\ i_calls <= (IF Degenerate(i_iter) THEN 0
                                ELSE Lists(i_iter.M_WIDTH - i_iter.M_WIDTH_OFFSET,
                                           i_iter.M_DEPTH)) + 1
                /\ Degenerate(i_iter) => i_ret # "true"
                /\ i_ret = "true" =>
                      /\ Len(i_iter.m_indices) \in 1..i_iter.M_DEPTH
                      /\ \A k \in DOMAIN i_iter.m_indices :
                            /\ i_iter.m_indices[k] >= i_iter.M_WIDTH_OFFSET
                            /\ i_iter.m_indices[k] < i_iter.M_WIDTH
                /\ i_ret = "false" =>
                      /\ i_iter.m_indices = <<>>
                      /\ next(i_iter) = next(fresh))
    /\ [][(ipc = "iterate" /\ i_ret = "false" /\ ~Degenerate(i_iter)) =>
            (i_ret' = "true" /\ i_calls' = 1
             /\ i_iter'.m_indices = <<i_iter.M_WIDTH_OFFSET>>)]_vars
    /\ []<>(ipc = "iterate" => i_ret = "false")

\* The iterator over 0..1 of depth 2 returned false on its seventh call,
\* after the lists 0, 00, 01, 1, 10, 11.
C30_Witness ==
    /\ ipc = "iterate"
    /\ i_iter = KeyIterator(2, 2, 0)
    /\ i_ret = "false"
    /\ i_calls = 7

============================================================================
